---- MODULE Spec2Model ----
(***************************************************************************)
(* The image-generation orchestrator of the SendBlessings plugin            *)
(* (generate_image_openrouter), the process-wide ImageGeneratorState it     *)
(* shares between calls, and the artifact store it saves images with.       *)
(*                                                                          *)
(* Scheduling is that of asyncio: a coroutine runs without interruption     *)
(* from one suspension point to the next.  The suspension points of a       *)
(* generate() call are the HTTP POST, the backoff sleep, the image download *)
(* and the aiofiles write and close.  asyncio.Lock.acquire() does not       *)
(* suspend when the lock is free, and no method of ImageGeneratorState      *)
(* awaits while it holds the lock, so each of its methods is one atomic     *)
(* step of the caller.  cleanup_old_images contains no await either.        *)
(*                                                                          *)
(* SpecLock drops that argument: there the lock is a variable, taking it is *)
(* a step of its own and a call waits while another one holds it, so the    *)
(* interleavings of SpecLock include those of asyncio and more.             *)
(***************************************************************************)
EXTENDS Integers, Sequences, FiniteSets, TLC

\* ---- bounds of the model ------------------------------------------------
NumCalls == 2       \* generate() calls that may run (concurrently in Spec)
MaxKeys == 2        \* longest credential list a call passes
MaxRetry == 2       \* largest max_retry_attempts a call passes
MaxPoolKeys == 5    \* longest credential list of the pool harness (SpecPool)
MaxRetryIdx == 4    \* largest retry index of a call on its own (SpecSingle)
                    \* and of the single-attempt harness (SpecAttempt)

Calls == 1..NumCalls
None == "None"

\* Credentials are opaque strings; a call passes a prefix of this list.
KeyName(i) == <<"k1", "k2", "k3", "k4", "k5", "k6">>[i]
KeyList(n) == [i \in 1..n |-> KeyName(i)]

VARIABLES
    api_key_index,      \* _state.api_key_index, the shared cursor
    last_saved_image,   \* _state.last_saved_image, [url, path]
    disk,               \* the images directory: file id -> state of the file
    call,               \* per generate() call: its locals, position and history
    mode,               \* which harness drives the program
    pool,               \* the pool harness of SpecPool
    lock,               \* _state._lock: the set of its holders (empty: free)
    attempt,            \* the single-attempt harness of SpecAttempt
    xfer,               \* the plugin's generate_image and its send_file exchange
    clock               \* the wall clock the store reads, in seconds

vars == <<api_key_index, last_saved_image, disk, call, mode, pool, lock, attempt, xfer, clock>>

\* ---- ImageGeneratorState -------------------------------------------------

\* the test for an empty list left out
EmptyNever(api_keys) == FALSE

\* `not api_keys` (lines 37, 216)
EmptyList(api_keys) == api_keys = <<>>

\* get_next_api_key: api_keys[self.api_key_index % len(api_keys)]
NextKey(api_keys, idx) == api_keys[(idx % Len(api_keys)) + 1]

\* get_next_api_key as a whole: ValueError on an empty list (line 38)
NextResult(api_keys, idx) ==
    IF EmptyList(api_keys) THEN "ValueError" ELSE NextKey(api_keys, idx)

\* rotate_to_next_api_key, with the index advanced without the modulo
RotateNoWrap(api_keys, idx) ==
    IF Len(api_keys) > 1 THEN idx + 1 ELSE idx

\* rotate_to_next_api_key, with the new index computed and not stored
RotateStay(api_keys, idx) == idx

\* rotate_to_next_api_key: the new value of self.api_key_index
RotateIdx(api_keys, idx) ==
    IF Len(api_keys) > 1 THEN (idx + 1) % Len(api_keys) ELSE idx

\* `async with self._lock` left with the lock still held by the caller
LockKept(c) == {c}

\* `async with self._lock` is left (by return or by raise): the lock is free
LockAfterWith(c) == {}

\* "file://" + absolute path of the artifact
FileUrl(path) == <<"file://", path>>

\* ---- artifact store --------------------------------------------------------

\* image_patterns of cleanup_old_images
ImagePatterns == {"png", "jpg", "jpeg"}

\* images_dir.glob("blessing_image_*.<ext>") for the three patterns: a file is
\* named by its stem and a number, and carries its extension
Matches(f, file) == f[1] = "blessing_image" /\ file.ext \in ImagePatterns

\* timedelta(minutes=15) of cleanup_old_images
RetentionMinutes == 15

\* datetime.fromtimestamp(t) and datetime.now(): the naive local time of an
\* instant, in a zone with a fixed offset from UTC
FromTimestamp(t, utc_offset) == t + utc_offset
LocalNow(time) == FromTimestamp(time.now, time.utc_offset)
CutoffTime(time) == LocalNow(time) - (RetentionMinutes * 60)

\* file_mtime <= cutoff_time in place of <
ExpiredIncl(file, time) ==
    IF time.timed THEN FromTimestamp(file.mtime, time.utc_offset) <= CutoffTime(time)
    ELSE file.old
\* file_mtime < cutoff_time (line 95).  Where the harness keeps no clock the
\* outcome of the test is the flag of the file
Expired(file, time) ==
    IF time.timed THEN FromTimestamp(file.mtime, time.utc_offset) < CutoffTime(time)
    ELSE file.old

\* cleanup_old_images with the age test left out: every matching file goes
CleanupAnyAge(d, time) ==
    LET gone == {f \in DOMAIN d : Matches(f, d[f])}
    IN  [f \in (DOMAIN d) \ gone |-> d[f]]

\* a loop that ends at the first file whose stat or unlink raises: none goes
\* when there is such a file
CleanupStopAtError(d, time) ==
    LET gone == {f \in DOMAIN d : Matches(f, d[f]) /\ Expired(d[f], time)}
    IN  IF \E f \in gone : d[f].locked THEN d ELSE [f \in (DOMAIN d) \ gone |-> d[f]]

\* cleanup_old_images: unlink every file that matches a pattern and whose
\* mtime is earlier than now - 15 minutes.  A file whose stat or unlink raises
\* (locked) stays, and the loop goes on (lines 90-100)
CleanupOldImages(d, time) ==
    LET gone == {f \in DOMAIN d : Matches(f, d[f]) /\ Expired(d[f], time) /\ ~d[f].locked}
    IN  [f \in (DOMAIN d) \ gone |-> d[f]]

\* ---- HTTP responses --------------------------------------------------------

\* A response body, by what the code looks at:
\*   form     "object" (a JSON object) or "not_json": `await response.json()`
\*            rejects it (ContentTypeError, a ClientError, or a decoding error)
\*   data     the "data" member: absent, empty ([]), or a list whose item is
\*            {"url": ..} (url), {"b64_json": ..} with valid or invalid base64
\*            (b64, b64_bad), an object with neither key (other), or not an
\*            object at all, e.g. a number (not_object)
\*   choices  the "choices" member: absent, empty ([]), [{}] (no_message),
\*            [{"message": {}}] (no_content), a message whose content is plain
\*            text (text), null (content_null) or text holding a data URI
\*            (content_uri), or a message with an "images" list whose item is a
\*            data URI with valid or invalid base64 (images, images_bad), a
\*            data URI of type image/webp (images_webp), or something else
\*            (images_other), or something else next to a content that holds
\*            a data URI (images_other_uri); the other data URIs are of type
\*            image/png
\*   error    the "error" member: absent, an object {"message": ..}, or a string
\*   text     the wording of the error
DataKinds == {"absent", "empty", "url", "b64", "b64_bad", "other", "not_object"}
ChoiceKinds ==
    {"absent", "empty", "no_message", "no_content", "text", "content_null",
     "content_uri", "images", "images_bad", "images_webp", "images_other",
     "images_other_uri"}
ErrorKinds == {"absent", "object", "string"}
Texts == {"insufficient", "INSUFFICIENT", "other"}

Body(form, data, choices, error, text) ==
    [form |-> form, data |-> data, choices |-> choices, error |-> error, text |-> text]
NotJson == Body("not_json", "absent", "absent", "absent", "other")
Body200(data, choices) == Body("object", data, choices, "absent", "other")
ErrBody(error, text) == Body("object", "absent", "absent", error, text)

\* every body, for the single-attempt harness
AllBodies ==
    {NotJson} \cup [form : {"object"}, data : DataKinds, choices : ChoiceKinds,
                    error : ErrorKinds, text : Texts]

\* the 200 bodies the calls of Spec are answered with: one per way the 200
\* branch can go ({"data": [{"url"}]}, {"data": [{"b64_json"}]} valid and
\* invalid, plain text content, {"choices": []}, and a message with an image
\* of type image/webp)
Bodies200 ==
    {Body200("url", "absent"), Body200("b64", "absent"), Body200("b64_bad", "absent"),
     Body200("absent", "text"), Body200("absent", "empty"), Body200("absent", "images_webp")}

\* status 0 stands for no response at all: aiohttp.ClientError or
\* asyncio.TimeoutError raised by session.post
Responses ==
    [status : {200}, body : Bodies200]
        \cup [status : {429, 500}, body : {ErrBody("object", "other")}]
        \cup [status : {402}, body : {ErrBody("object", "insufficient"),
                                      ErrBody("object", "other")}]
        \cup [status : {429}, body : {ErrBody("string", "other")}]
        \cup [status : {402}, body : {ErrBody("string", "insufficient")}]
        \cup [status : {0, 200, 402, 429, 500}, body : {NotJson}]

AllResponses == [status : {0, 200, 402, 429, 500}, body : AllBodies]

\* str.lower() on the wording
Lower(text) == IF text = "INSUFFICIENT" THEN "insufficient" ELSE text

\* "insufficient" in str(data).lower()
Insufficient(body) == body.error # "absent" /\ Lower(body.text) = "insufficient"

\* data = await response.json() (line 317) raises
JsonFails(r) == r.status = 0 \/ r.body.form = "not_json"

\* data.get("error", {}).get("message", ...) (lines 415, 420) raises
\* AttributeError: the "error" member is a string
MessageFails(body) == body.error = "string"

\* the branch taken on a response: the body is decoded first (line 317),
\* then the status is tested (lines 323, 413, 418); the quota branch reads
\* the error message before it breaks (line 415); an exception goes to the
\* handlers of lines 429-438
Classify(r) ==
    IF JsonFails(r) THEN "retry"
    ELSE IF r.status = 200 THEN "ok"
    ELSE IF r.status = 429 \/ (r.status = 402 /\ Insufficient(r.body))
         THEN IF MessageFails(r.body) THEN "retry" ELSE "quota"
    ELSE "retry"

\* the branch of the 200 handler that looks for the image: `if "data" in data
\* and data["data"]` (line 325), `elif "choices" in data` (line 370)
ParseBranch(body) ==
    IF body.data \notin {"absent", "empty"} THEN "data"
    ELSE IF body.choices # "absent" THEN "choices"
    ELSE "neither"

\* the 200 handler with the choices looked at first
ParseChoicesFirst(body) ==
    IF body.choices # "absent"
    THEN CASE body.choices \in {"empty", "no_message", "no_content"} -> "raise"
           [] body.choices \in {"images", "images_bad", "images_webp", "content_uri"}
                     -> "b64"
           [] OTHER -> "none"
    ELSE CASE body.data = "url" -> "url"
           [] body.data \in {"b64", "b64_bad"} -> "b64"
           [] body.data = "not_object" -> "raise"
           [] OTHER -> "none"

\* the 200 handler going on to the next rule when a rule finds no image: from
\* the data items to the choices, from the images to the content
ParseFallThrough(body) ==
    LET choices == CASE body.choices \in {"empty", "no_message", "no_content"} -> "raise"
                     [] body.choices \in {"images", "images_bad", "images_webp",
                                          "content_uri", "images_other_uri"} -> "b64"
                     [] OTHER -> "none"
    IN  IF body.data = "url" THEN "url"
        ELSE IF body.data \in {"b64", "b64_bad"} THEN "b64"
        ELSE IF body.data = "not_object" THEN "raise"
        ELSE IF body.choices # "absent" THEN choices
        ELSE "none"

\* what the 200 branch finds in the body (lines 325-411): a URL to download
\* (url), base64 to save (b64), nothing (none), or an exception (raise):
\* `"url" in image_item` on a non-container is a TypeError, data["choices"][0]
\* on [] an IndexError, choice["message"] and message["content"] a KeyError
ParseBody(body) ==
    CASE ParseBranch(body) = "data" ->
            (CASE body.data = "url" -> "url"
               [] body.data \in {"b64", "b64_bad"} -> "b64"
               [] body.data = "not_object" -> "raise"
               [] OTHER -> "none")
      [] ParseBranch(body) = "choices" ->
            (CASE body.choices \in {"empty", "no_message", "no_content"} -> "raise"
               [] body.choices \in {"images", "images_bad", "images_webp", "content_uri"}
                     -> "b64"
               [] OTHER -> "none")
      [] OTHER -> "none"

\* base64.b64decode succeeds on the base64 the branch hands to the store
B64Valid(body) ==
    IF ParseBranch(body) = "data" THEN body.data = "b64"
    ELSE body.choices \in {"images", "images_webp", "content_uri"}

\* the image_format save_base64_image is called with: "png" for b64_json
\* (line 365), the subtype of the data URI otherwise (lines 388, 405)
ImageFormat(body) ==
    IF ParseBranch(body) = "choices" /\ body.choices = "images_webp" THEN "webp" ELSE "png"

\* ---- generate_image_openrouter ---------------------------------------------

Min(a, b) == IF a < b THEN a ELSE b

\* the delay without its cap
DelayNoCap(retry_attempt) == 2 ^ retry_attempt

\* delay = min(2 ** retry_attempt, 10)
Delay(retry_attempt) == Min(2 ^ retry_attempt, 10)

\* Python's None where a path or a URL is expected
NoPath == <<>>

NoResult == [kind |-> "none", url |-> NoPath, path |-> NoPath]
Failure(kind) == [kind |-> kind, url |-> NoPath, path |-> NoPath]

IdleCall ==
    [pc |-> "idle", api_keys |-> <<>>, max_retry_attempts |-> 0,
     api_attempt |-> 0, retry_attempt |-> 0, current_api_key |-> None,
     wkind |-> None, image_format |-> None, image_path |-> NoPath, ret |-> NoResult,
     log |-> <<>>]

\* ---- the history of a call (not program state) ----
\* The history is kept for one call, the observed one; the other calls run
\* the same code.  log is the sequence of credential blocks of the call; a
\* block records the key next() returned, the cursor next() saw, the cursor
\* its rotate() found (-1: no rotate yet), and its events: POST attempts
\* (with the key sent, the outcome, and whether the status was 429) and
\* backoff sleeps (with the delay).  Outcomes of an attempt:
\*   pending    no answer yet, or a 200 whose image is being fetched or saved
\*   transient  taken as retryable: no response, a body that is not JSON, or
\*              a non-200 status that is not quota-exceeded
\*   q429, q402 taken as quota exceeded
\*   saved_url, saved_b64   200, image saved (downloaded / inline base64)
\*   none       200, ended as "no image found"
\*   raised     200, then an exception while the body was handled
Observed == CHOOSE c \in Calls : \A d \in Calls : c <= d
NewBlock(key, idx) == [key |-> key, seen |-> idx, atRot |-> -1, ev |-> <<>>]
SleepEv(d) == [t |-> "sleep", d |-> d, k |-> None, out |-> None, s429 |-> FALSE]
PostEv(key) == [t |-> "post", d |-> 0, k |-> key, out |-> "pending", s429 |-> FALSE]

Logged(s) == s.log # <<>>
AddEv(s, e) == IF Logged(s) THEN [s EXCEPT !.log[Len(s.log)].ev = Append(@, e)] ELSE s
\* the status of the answer, as far as the history keeps it
SetStatus(s, r) ==
    IF Logged(s)
    THEN LET b == Len(s.log)
             n == Len(s.log[b].ev)
         IN  [s EXCEPT !.log[b].ev[n].s429 = (r.status = 429)]
    ELSE s

\* the outcome of the attempt in flight: the last event of the last block
SetOut(s, out) ==
    IF Logged(s)
    THEN LET b == Len(s.log)
             n == Len(s.log[b].ev)
         IN  [s EXCEPT !.log[b].ev[n].out = out]
    ELSE s

\* the Authorization header of an attempt re-read from the pool
HeaderFromPool(s, idx) == NextKey(s.api_keys, idx)

\* the Authorization header of an attempt: f"Bearer {current_api_key}"
HeaderKey(s, idx) == s.current_api_key

\* the call returns: its locals are gone, its result and its history stay
Return(w, ret) ==
    [w EXCEPT !.s = [IdleCall EXCEPT !.pc = "done", !.ret = ret, !.log = w.s.log,
                                     !.api_keys = w.s.api_keys,
                                     !.max_retry_attempts = w.s.max_retry_attempts]]

\* session.post(...) is issued: the call suspends in the request
SendPost(w) ==
    [w EXCEPT !.s = AddEv([w.s EXCEPT !.pc = "post"], PostEv(HeaderKey(w.s, w.idx)))]

\* the retry loop is left for a key that is not the last one when a key is
\* still to come, tested one short
MoreKeysShort(s) == s.api_attempt < Len(s.api_keys) - 2

\* if api_attempt < max_api_attempts - 1
MoreKeys(s) == s.api_attempt < Len(s.api_keys) - 1

\* rotate_to_next_api_key(api_keys) at the end of a block (line 445) and the
\* loop header of the next block (line 232)
RotateStep(w) ==
    LET idx2 == RotateIdx(w.s.api_keys, w.idx)
        s1 == [w.s EXCEPT !.api_attempt = @ + 1, !.retry_attempt = 0]
        s2 == IF Logged(w.s)
              THEN [s1 EXCEPT !.log = [@ EXCEPT ![Len(@)].atRot = w.idx]]
              ELSE s1
    IN  [w EXCEPT !.s = s2, !.idx = idx2]

\* get_next_api_key(api_keys) at the head of a block (line 234), then the
\* first POST of the block
NextStep(w) ==
    LET k == NextKey(w.s.api_keys, w.idx)
        s1 == [w.s EXCEPT !.current_api_key = k]
        s2 == IF Logged(w.s)
              THEN [s1 EXCEPT !.log = Append(@, NewBlock(k, w.idx))]
              ELSE s1
    IN  SendPost([w EXCEPT !.s = s2])

\* the end of a credential block (lines 443-449, then 232-246 of the next
\* block): rotate and take the next key, or give up.  With the lock as a
\* variable (w.fine) the call goes for the lock first.
EndBlock(w) ==
    IF MoreKeys(w.s)
    THEN IF w.fine
         THEN [w EXCEPT !.s.pc = "rotate"]
         ELSE NextStep(RotateStep(w))
    ELSE Return(w, Failure("Exhausted"))

\* the last retry of the key, tested one early
LastRetryEarly(s) == s.retry_attempt >= s.max_retry_attempts - 2

\* the last retry of the key, tested one late
LastRetryLate(s) == s.retry_attempt >= s.max_retry_attempts

\* retry_attempt == max_retry_attempts - 1
LastRetry(s) == s.retry_attempt >= s.max_retry_attempts - 1

\* a retryable failure of the attempt (lines 418-438): break on the last
\* retry, else go round the retry loop into the backoff sleep
FailAttempt(w) ==
    IF LastRetry(w.s)
    THEN EndBlock(w)
    ELSE LET r == w.s.retry_attempt + 1
         IN  [w EXCEPT !.s = AddEv([w.s EXCEPT !.retry_attempt = r, !.pc = "backoff"],
                                   SleepEv(Delay(r)))]

\* return None, None after "API调用成功，但未找到图像数据"
ReturnNoImage(w) == Return(w, Failure("NoImageFound"))

\* the name of the file the call writes (timestamp + uuid4: unique per call)
NewPath(c, s) == <<"blessing_image", c>>

\* the record stored when the write begins, before the file is there
BeginWriteRecorded(w, c, kind, image_format) ==
    [w EXCEPT !.disk = CleanupOldImages(w.disk, w.time),
              !.s.pc = "write", !.s.wkind = kind, !.s.image_format = image_format,
              !.s.image_path = NewPath(c, w.s),
              !.last = [url |-> FileUrl(NewPath(c, w.s)), path |-> NewPath(c, w.s)]]
\* mkdir, cleanup_old_images, then aiofiles.open: the write is in flight
BeginWrite(w, c, kind, image_format) ==
    [w EXCEPT !.disk = CleanupOldImages(w.disk, w.time),
              !.s.pc = "write", !.s.wkind = kind, !.s.image_format = image_format,
              !.s.image_path = NewPath(c, w.s)]

\* a file as the store writes it: its content, whether its mtime is more
\* than 15 minutes back, its extension, its mtime, and whether stat or unlink
\* raise for it
File(content, ext, mtime) ==
    [content |-> content, old |-> FALSE, ext |-> ext, mtime |-> mtime, locked |-> FALSE]
PutFile(d, path, f) == [p \in (DOMAIN d) \cup {path} |-> IF p = path THEN f ELSE d[p]]

\* the 200 branch (lines 323-411), up to its first suspension point
On200(w, c, body) ==
    LET p == ParseBody(body)
        w1 == w
    IN  CASE p = "url" -> [w1 EXCEPT !.s.pc = "download"]
          [] p = "b64" ->
                IF B64Valid(body)
                THEN BeginWrite(w1, c, "b64", ImageFormat(body))
                ELSE ReturnNoImage([w EXCEPT !.s = SetOut(w.s, "none"),
                                             !.disk = CleanupOldImages(w.disk, w.time)])
          [] p = "none" -> ReturnNoImage([w EXCEPT !.s = SetOut(w.s, "none")])
          [] OTHER -> FailAttempt([w EXCEPT !.s = SetOut(w.s, "raised")])

\* the code after `data = await response.json()` (lines 317-438), up to the
\* next suspension point of the call
OnResponse(w, c, r) ==
    LET cls == Classify(r)
    IN  CASE cls = "ok" -> On200(w, c, r.body)
          [] cls = "quota" ->
                EndBlock([w EXCEPT !.s = SetStatus(SetOut(w.s, IF r.status = 429 THEN "q429"
                                                                                  ELSE "q402"), r)])
          [] OTHER -> FailAttempt([w EXCEPT !.s = SetStatus(SetOut(w.s, "transient"), r)])

\* session.get(image_url) answered (lines 334-360)
OnDownload(w, c, o) ==
    CASE o = "ok" -> BeginWrite(w, c, "url", "png")
      [] o = "status" -> ReturnNoImage([w EXCEPT !.s = SetOut(w.s, "none")])
      [] OTHER -> FailAttempt([w EXCEPT !.s = SetOut(w.s, "raised")])

\* aiofiles.open and `await f.write(...)` done (lines 140-141, 348-349): the
\* file has its content.  An OSError (raised by the open: no file is left) is
\* an exception of the retry loop on the URL path, but a False of
\* save_base64_image on the base64 path
OnWrite(w, c, ok) ==
    IF ok
    THEN [w EXCEPT !.disk = PutFile(w.disk, w.s.image_path,
                                   File("full", w.s.image_format, w.time.now)),
                   !.s.pc = "close"]
    ELSE IF w.s.wkind = "url"
         THEN FailAttempt([w EXCEPT !.s = SetOut([w.s EXCEPT !.wkind = None,
                                                              !.image_format = None,
                                                              !.image_path = NoPath], "raised")])
         ELSE ReturnNoImage([w EXCEPT !.s = SetOut(w.s, "none")])

\* get_saved_image_info(): the pair read from the shared record
SavedImageInfo(last) == [url |-> last["url"], path |-> last["path"]]

\* the record update_saved_image stores for the file the call wrote
SavedRecord(s) == [url |-> FileUrl(s.image_path), path |-> s.image_path]

\* the call returns the pair got (lines 358, 367, 392, 408)
ReturnSuccess(w, got) ==
    Return([w EXCEPT !.s = SetOut(w.s, IF w.s.wkind = "url" THEN "saved_url"
                                                            ELSE "saved_b64")],
           [kind |-> "Success", url |-> got.url, path |-> got.path])

\* the record read as another call may have left it: the read of
\* get_saved_image_info not preceded by the call's own update
OnCloseStale(w, c) ==
    LET saved == SavedRecord(w.s)
        got == IF w.s.wkind = "url" THEN saved ELSE SavedImageInfo(w.last)
    IN  ReturnSuccess([w EXCEPT !.last = saved], got)

\* the aiofiles context is left, update_saved_image, and the return:
\* (file_url, path) on the URL path, get_saved_image_info() on the base64 path
OnClose(w, c) ==
    IF w.fine
    THEN [w EXCEPT !.s.pc = "update"]
    ELSE LET saved == SavedRecord(w.s)
             w1 == [w EXCEPT !.last = saved]
             \* no suspension point lies between update_saved_image and
             \* get_saved_image_info
             got == IF w.s.wkind = "url" THEN saved ELSE SavedImageInfo(w1.last)
         IN  ReturnSuccess(w1, got)

\* ---- the state machine -------------------------------------------------------

World(c) ==
    [s |-> call[c], idx |-> api_key_index, disk |-> disk, last |-> last_saved_image,
     lock |-> lock, fine |-> mode \in {"lock", "locklive"},
     time |-> [timed |-> mode = "store", now |-> clock.now, utc_offset |-> clock.utc_offset]]

Commit(c, w) ==
    /\ call' = [call EXCEPT ![c] = w.s]
    /\ api_key_index' = w.idx
    /\ disk' = w.disk
    /\ last_saved_image' = w.last
    /\ lock' = w.lock
    /\ UNCHANGED <<mode, pool, attempt, xfer, clock>>

Active(c) == call[c].pc \notin {"idle", "done"}

\* the artifact of an earlier run of the process, older than 15 minutes
OldArtifact == <<"blessing_image", 0>>

InitShared ==
    /\ api_key_index = 0
    /\ last_saved_image = [url |-> NoPath, path |-> NoPath]
    /\ disk = (OldArtifact :> [File("full", "png", 0) EXCEPT !.old = TRUE])
    /\ call = [c \in Calls |-> IdleCall]
    /\ pool = [api_keys |-> <<>>, start |-> 0, rotations |-> 0, got |-> None]
    /\ lock = {}
    /\ attempt = [pc |-> "idle"]
    /\ xfer = [pc |-> "off"]
    /\ clock = [now |-> 0, ticks |-> 0, utc_offset |-> 0]

Init == InitShared /\ mode = "concurrent"
\* no two calls overlap
InitSolo == InitShared /\ mode = "solo"
\* concurrent calls, no history kept
InitLive == InitShared /\ mode = "unobserved"
\* concurrent calls, no history kept, the lock taken and released in steps
InitLock == InitShared /\ mode = "lock"
\* one call on its own, with up to MaxRetryIdx + 1 attempts per credential
InitSingle == InitShared /\ mode = "single"

\* the values of max_retry_attempts the calls are made with
RetryRange ==
    IF mode = "single" THEN 1..(MaxRetryIdx + 1)
    ELSE IF mode = "locklive" THEN MaxRetry..MaxRetry
    ELSE 1..MaxRetry

\* the lengths of the key lists the calls are made with: the store harness
\* gives every call one key
KeyRange ==
    IF mode = "store" THEN 1..1
    ELSE IF mode = "locklive" THEN MaxKeys..MaxKeys
    ELSE 0..MaxKeys

\* generate_image_openrouter is called (lines 212-246): an empty list is
\* refused at once (line 216); else the first next() and the first POST follow
\* without suspension
Start(c) ==
    /\ call[c].pc = "idle"
    /\ mode \in {"concurrent", "unobserved", "lock", "locklive", "store"}
          \/ (mode = "solo" /\ \A o \in Calls : ~Active(o))
          \/ (mode = "single" /\ c = Observed)
    /\ \E n \in KeyRange, m \in RetryRange :
          LET keys == KeyList(n)
              s0 == [IdleCall EXCEPT !.api_keys = keys, !.max_retry_attempts = m]
          IN  IF EmptyList(keys)
              THEN Commit(c, Return([World(c) EXCEPT !.s = s0], Failure("NoKeys")))
              ELSE IF mode \in {"lock", "locklive"}
              THEN Commit(c, [World(c) EXCEPT !.s = [s0 EXCEPT !.pc = "next"]])
              ELSE LET k == NextKey(keys, api_key_index)
                       s == [s0 EXCEPT !.current_api_key = k,
                                       !.log = IF c = Observed /\ mode \notin {"unobserved", "store"}
                                               THEN <<NewBlock(k, api_key_index)>>
                                               ELSE <<>>]
                   IN  Commit(c, SendPost([World(c) EXCEPT !.s = s]))

\* the POST is answered, fails or times out
PostResponse(c) ==
    /\ call[c].pc = "post"
    /\ \E r \in Responses : Commit(c, OnResponse(World(c), c, r))

\* asyncio.sleep(delay) is over: the retry is sent
Backoff(c) ==
    /\ call[c].pc = "backoff"
    /\ Commit(c, SendPost(World(c)))

Download(c) ==
    /\ call[c].pc = "download"
    /\ \E o \in {"ok", "status", "exception"} : Commit(c, OnDownload(World(c), c, o))

Write(c) ==
    /\ call[c].pc = "write"
    /\ \E ok \in BOOLEAN : Commit(c, OnWrite(World(c), c, ok))

Close(c) ==
    /\ call[c].pc = "close"
    /\ Commit(c, OnClose(World(c), c))

\* fifteen minutes pass over a file.  A write that is under way ends well
\* within the retention window, so a file does not expire between its write
\* and the return of the call that wrote it.
Expire ==
    /\ mode # "pool"
    /\ \E f \in DOMAIN disk :
          /\ ~disk[f].old
          /\ \A c \in Calls : ~(call[c].pc = "close" /\ call[c].image_path = f)
          /\ disk' = [disk EXCEPT ![f].old = TRUE]
    /\ UNCHANGED <<api_key_index, last_saved_image, call, mode, pool, lock, attempt, xfer, clock>>

Next ==
    \/ \E c \in Calls : Start(c)
    \/ \E c \in Calls : PostResponse(c)
    \/ \E c \in Calls : Backoff(c)
    \/ \E c \in Calls : Download(c)
    \/ \E c \in Calls : Write(c)
    \/ \E c \in Calls : Close(c)
    \/ Expire

Spec == Init /\ [][Next]_vars
SpecSolo == InitSolo /\ [][Next]_vars
SpecSingle == InitSingle /\ [][Next]_vars

\* the event loop runs every task that is ready; each HTTP request, sleep and
\* file operation completes
Step(c) == PostResponse(c) \/ Backoff(c) \/ Download(c) \/ Write(c) \/ Close(c)
SpecLive == InitLive /\ [][Next]_vars /\ \A c \in Calls : WF_vars(Step(c))

\* ---- the store under a clock -------------------------------------------------------

\* the clock is read at most MaxTicks times apart
MaxTicks == 3
\* the seconds that pass between two events: a second, a minute, 14 minutes
TickAmounts == {1, 60, 840}
\* the zones of the host: UTC and UTC+8
UtcOffsets == {0, 28800}

\* the images directory at the start: two artifacts of an earlier run (png,
\* jpeg), an artifact in a format no pattern names, and a file of another name
InitialFiles ==
    (OldArtifact :> File("full", "png", 0))
        @@ (<<"blessing_image", -1>> :> File("full", "jpeg", 0))
        @@ (<<"blessing_image", -2>> :> File("full", "webp", 0))
        @@ (<<"photo", 0>> :> File("full", "png", 0))

InitStore ==
    /\ mode = "store"
    /\ api_key_index = 0
    /\ last_saved_image = [url |-> NoPath, path |-> NoPath]
    /\ disk = InitialFiles
    /\ call = [c \in Calls |-> IdleCall]
    /\ pool = [api_keys |-> <<>>, start |-> 0, rotations |-> 0, got |-> None]
    /\ lock = {}
    /\ attempt = [pc |-> "idle"]
    /\ xfer = [pc |-> "off"]
    /\ \E o \in UtcOffsets : clock = [now |-> 0, ticks |-> 0, utc_offset |-> o]

\* time passes
Tick ==
    /\ mode = "store" /\ clock.ticks < MaxTicks
    /\ \E d \in TickAmounts : clock' = [clock EXCEPT !.now = @ + d, !.ticks = @ + 1]
    /\ UNCHANGED <<api_key_index, last_saved_image, disk, call, mode, pool, lock, attempt, xfer>>

\* a file of the directory becomes one whose stat or unlink raises (its
\* permissions change, another process holds it)
Protect ==
    /\ mode = "store"
    /\ \A f \in DOMAIN disk : ~disk[f].locked
    /\ \E f \in DOMAIN disk : disk' = [disk EXCEPT ![f].locked = TRUE]
    /\ UNCHANGED <<api_key_index, last_saved_image, call, mode, pool, lock, attempt, xfer, clock>>

NextStore ==
    \/ \E c \in Calls : Start(c)
    \/ \E c \in Calls : PostResponse(c)
    \/ \E c \in Calls : Backoff(c)
    \/ \E c \in Calls : Download(c)
    \/ \E c \in Calls : Write(c)
    \/ \E c \in Calls : Close(c)
    \/ Tick
    \/ Protect
SpecStore == InitStore /\ [][NextStore]_vars

\* ---- the lock as a variable ------------------------------------------------------

\* the methods of ImageGeneratorState a call is about to enter
LockPcs == {"next", "rotate", "update", "get"}

\* `async with self._lock` is entered: the caller takes the free lock
Acquire(c) ==
    /\ call[c].pc \in LockPcs
    /\ lock = {}
    /\ lock' = {c}
    /\ UNCHANGED <<api_key_index, last_saved_image, disk, call, mode, pool, attempt, xfer, clock>>

\* the body of get_next_api_key (lines 37-40) and the way to the POST
NextLocked(c) ==
    /\ call[c].pc = "next" /\ c \in lock
    /\ Commit(c, NextStep([World(c) EXCEPT !.lock = LockAfterWith(c)]))

\* the body of rotate_to_next_api_key (lines 45-47), then the next block
RotateLocked(c) ==
    /\ call[c].pc = "rotate" /\ c \in lock
    /\ Commit(c, [RotateStep([World(c) EXCEPT !.lock = LockAfterWith(c)])
                     EXCEPT !.s.pc = "next"])

\* the body of update_saved_image (line 52); the URL path returns its own
\* pair, the base64 path goes on to get_saved_image_info
UpdateLocked(c) ==
    /\ call[c].pc = "update" /\ c \in lock
    /\ LET saved == SavedRecord(call[c])
           w1 == [World(c) EXCEPT !.last = saved, !.lock = LockAfterWith(c)]
       IN  IF call[c].wkind = "url"
           THEN Commit(c, ReturnSuccess(w1, saved))
           ELSE Commit(c, [w1 EXCEPT !.s.pc = "get"])

\* the body of get_saved_image_info (line 57) and the return of its pair
GetLocked(c) ==
    /\ call[c].pc = "get" /\ c \in lock
    /\ LET w1 == [World(c) EXCEPT !.lock = LockAfterWith(c)]
       IN  Commit(c, ReturnSuccess(w1, SavedImageInfo(w1.last)))

\* get_next_api_key(api_keys) called on its own, by a coroutine c that is not
\* inside generate(), with a list that may be empty; the lock is free, so c
\* enters at once, and the `async with` is left by return or by raise
NextDirect(c) ==
    /\ mode \in {"lock", "locklive"} /\ lock = {}
    /\ call[c].pc \in {"idle", "done"}
    /\ \E n \in 0..MaxKeys :
          pool' = [pool EXCEPT !.api_keys = KeyList(n),
                               !.got = NextResult(KeyList(n), api_key_index)]
    /\ lock' = LockAfterWith(c)
    /\ UNCHANGED <<api_key_index, last_saved_image, disk, call, mode, attempt, xfer, clock>>

NextLock ==
    \/ Next
    \/ \E c \in Calls : NextDirect(c)
    \/ \E c \in Calls : Acquire(c)
    \/ \E c \in Calls : NextLocked(c)
    \/ \E c \in Calls : RotateLocked(c)
    \/ \E c \in Calls : UpdateLocked(c)
    \/ \E c \in Calls : GetLocked(c)

SpecLock == InitLock /\ [][NextLock]_vars

\* ---- one attempt on its own: the request that is built, the answer taken -------

\* model identifiers; ModelLower is model.lower()
Models == {"google/gemini-2.5-flash-image-preview:free", "nano-banana", "Nano-Banana-Pro"}
ModelLower(model) == IF model = "Nano-Banana-Pro" THEN "nano-banana-pro" ELSE model

\* "nano-banana" in model.lower()
IsNanoBanana(model) == ModelLower(model) \in {"nano-banana", "nano-banana-pro"}

\* api_base as a sequence of pieces; None and "" are both the empty sequence
\* (both are false in `if api_base`)
ApiBases ==
    {<<>>, <<"https://host">>, <<"https://host", "/">>, <<"https://host", "/", "/">>}

\* str.rstrip('/')
RECURSIVE RStrip(_)
RStrip(u) ==
    IF u # <<>> /\ u[Len(u)] = "/" THEN RStrip(SubSeq(u, 1, Len(u) - 1)) ELSE u

ImagesPath == "/v1/images/generations"
ChatPath == "/v1/chat/completions"

\* the request URL (lines 221-227)
Url(model, api_base) ==
    IF api_base # <<>>
    THEN IF IsNanoBanana(model)
         THEN Append(RStrip(api_base), ImagesPath)
         ELSE Append(RStrip(api_base), ChatPath)
    ELSE <<"https://openrouter.ai/api", ChatPath>>

\* the keys of the payload (lines 273-293)
Payload(model) ==
    IF IsNanoBanana(model)
    THEN {"model", "prompt", "n", "size"}
    ELSE {"model", "messages", "max_tokens", "temperature"}

\* the sleep before the attempt (lines 240-246): none before the first one
SleepBefore(retry_attempt) == IF retry_attempt > 0 THEN Delay(retry_attempt) ELSE 0

\* a call with MaxKeys credentials whose attempt with index retry_attempt, out
\* of MaxRetryIdx + 1, is in flight on its first credential
ProbeWorld(retry_attempt) ==
    LET keys == KeyList(MaxKeys)
        k == NextKey(keys, 0)
    IN  [s |-> [IdleCall EXCEPT !.pc = "post", !.api_keys = keys,
                                !.max_retry_attempts = MaxRetryIdx + 1,
                                !.retry_attempt = retry_attempt,
                                !.current_api_key = k,
                                !.log = <<[NewBlock(k, 0) EXCEPT !.ev = <<PostEv(k)>>]>>],
         idx |-> 0, disk |-> <<>>, last |-> [url |-> NoPath, path |-> NoPath],
         lock |-> {}, fine |-> FALSE]

\* what the response handler makes of the answer r to that attempt: how the
\* attempt is taken (out), where the call stands then (pc), the retry index
\* and the number of blocks it has then, and its result
Taken(r, retry_attempt) ==
    LET w == OnResponse(ProbeWorld(retry_attempt), Observed, r)
    IN  [out |-> w.s.log[1].ev[1].out, pc |-> w.s.pc,
         retry_attempt |-> w.s.retry_attempt, blocks |-> Len(w.s.log),
         ret |-> w.s.ret.kind]

\* the same once the download the answer led to is over with outcome o
TakenAfter(r, retry_attempt, o) ==
    LET w == OnDownload(OnResponse(ProbeWorld(retry_attempt), Observed, r), Observed, o)
    IN  [out |-> w.s.log[1].ev[1].out, pc |-> w.s.pc,
         retry_attempt |-> w.s.retry_attempt, blocks |-> Len(w.s.log),
         ret |-> w.s.ret.kind]

InitAttempt == InitShared /\ mode = "attempt"

\* the request of an attempt is built (lines 220-227, 240-300)
AttemptBuild ==
    /\ mode = "attempt" /\ attempt.pc = "idle"
    /\ \E model \in Models, api_base \in ApiBases, retry_attempt \in 0..MaxRetryIdx :
          attempt' = [pc |-> "built", model |-> model, api_base |-> api_base,
                      retry_attempt |-> retry_attempt,
                      url |-> Url(model, api_base), payload |-> Payload(model),
                      slept |-> SleepBefore(retry_attempt)]
    /\ UNCHANGED <<api_key_index, last_saved_image, disk, call, mode, pool, lock, xfer, clock>>

\* the request is answered (lines 316-438)
AttemptAnswer ==
    /\ mode = "attempt" /\ attempt.pc = "built"
    /\ \E r \in AllResponses :
          attempt' = [pc |-> "answered", retry_attempt |-> attempt.retry_attempt,
                      r |-> r, branch |-> ParseBranch(r.body),
                      parse |-> ParseBody(r.body),
                      taken |-> Taken(r, attempt.retry_attempt)]
    /\ UNCHANGED <<api_key_index, last_saved_image, disk, call, mode, pool, lock, xfer, clock>>

\* the download of the image at the URL of the answer is over (lines 334-360)
AttemptDownload ==
    /\ mode = "attempt" /\ attempt.pc = "answered" /\ attempt.taken.pc = "download"
    /\ \E o \in {"ok", "status", "exception"} :
          attempt' = [pc |-> "downloaded", retry_attempt |-> attempt.retry_attempt,
                      r |-> attempt.r, branch |-> attempt.branch, parse |-> attempt.parse,
                      taken |-> attempt.taken, download |-> o,
                      after |-> TakenAfter(attempt.r, attempt.retry_attempt, o)]
    /\ UNCHANGED <<api_key_index, last_saved_image, disk, call, mode, pool, lock, xfer, clock>>

NextAttempt == AttemptBuild \/ AttemptAnswer \/ AttemptDownload
SpecAttempt == InitAttempt /\ [][NextAttempt]_vars

\* ---- the pool on its own: next() and rotate() called on a fixed list ----------

InitPool ==
    /\ InitShared
    /\ mode = "pool"

\* a list is configured (once) for the pool
PoolConfigure ==
    /\ mode = "pool" /\ pool.api_keys = <<>>
    /\ \E n \in 1..MaxPoolKeys : pool' = [pool EXCEPT !.api_keys = KeyList(n)]
    /\ UNCHANGED <<api_key_index, last_saved_image, disk, call, mode, lock, attempt, xfer, clock>>

\* get_next_api_key(api_keys)
PoolNext ==
    /\ mode = "pool" /\ pool.api_keys # <<>>
    /\ pool' = [pool EXCEPT !.got = NextKey(pool.api_keys, api_key_index)]
    /\ UNCHANGED <<api_key_index, last_saved_image, disk, call, mode, lock, attempt, xfer, clock>>

\* rotate_to_next_api_key(api_keys); rotations counts the consecutive ones
\* since start was noted
PoolRotate ==
    /\ mode = "pool" /\ pool.api_keys # <<>>
    /\ pool.rotations < Len(pool.api_keys)
    /\ api_key_index' = RotateIdx(pool.api_keys, api_key_index)
    /\ pool' = [pool EXCEPT !.rotations = @ + 1, !.got = None]
    /\ UNCHANGED <<last_saved_image, disk, call, mode, lock, attempt, xfer, clock>>

\* the observer notes the cursor as the starting value of the next run
PoolMark ==
    /\ mode = "pool" /\ pool.rotations > 0
    /\ pool' = [pool EXCEPT !.start = api_key_index, !.rotations = 0]
    /\ UNCHANGED <<api_key_index, last_saved_image, disk, call, mode, lock, attempt, xfer, clock>>

NextPool == PoolConfigure \/ PoolNext \/ PoolRotate \/ PoolMark
SpecPool == InitPool /\ [][NextPool]_vars

\* ---- send_file: the framing ------------------------------------------------------

\* strings are sequences of code points, byte strings sequences of 0..255

\* struct.pack(">I", n) and struct.pack(">Q", n): n in w bytes, big-endian
RECURSIVE BigEndian(_, _)
BigEndian(n, w) == IF w = 0 THEN <<>> ELSE BigEndian(n \div 256, w - 1) \o <<n % 256>>
Pack32(n) == BigEndian(n, 4)
Pack64(n) == BigEndian(n, 8)

\* struct.unpack(">I", b)[0]
RECURSIVE Unpack(_)
Unpack(b) == IF b = <<>> THEN 0 ELSE (256 * Unpack(SubSeq(b, 1, Len(b) - 1))) + b[Len(b)]

\* str.encode("utf-8")
EncodeChar(cp) ==
    IF cp < 128 THEN <<cp>>
    ELSE IF cp < 2048 THEN <<192 + (cp \div 64), 128 + (cp % 64)>>
    ELSE IF cp < 65536 THEN <<224 + (cp \div 4096), 128 + ((cp \div 64) % 64), 128 + (cp % 64)>>
    ELSE <<240 + (cp \div 262144), 128 + ((cp \div 4096) % 64),
           128 + ((cp \div 64) % 64), 128 + (cp % 64)>>
RECURSIVE Encode(_)
Encode(str) == IF str = <<>> THEN <<>> ELSE EncodeChar(Head(str)) \o Encode(Tail(str))

\* bytes.decode("utf-8"), strict: the code points, or a UnicodeDecodeError
Continuation(b, i) == i <= Len(b) /\ b[i] >= 128 /\ b[i] < 192
DecodeError == [ok |-> FALSE, str |-> <<>>]
RECURSIVE Decode(_)
Decode(b) ==
    IF b = <<>> THEN [ok |-> TRUE, str |-> <<>>]
    ELSE LET b1 == b[1]
             n == IF b1 < 128 THEN 1
                  ELSE IF b1 >= 194 /\ b1 < 224 THEN 2
                  ELSE IF b1 >= 224 /\ b1 < 240 THEN 3
                  ELSE IF b1 >= 240 /\ b1 < 245 THEN 4
                  ELSE 0
         IN  IF n = 0 \/ \E i \in 2..n : ~Continuation(b, i)
             THEN DecodeError
             ELSE LET cp == CASE n = 1 -> b1
                              [] n = 2 -> ((b1 - 192) * 64) + (b[2] - 128)
                              [] n = 3 -> ((b1 - 224) * 4096) + ((b[2] - 128) * 64) + (b[3] - 128)
                              [] OTHER -> ((b1 - 240) * 262144) + ((b[2] - 128) * 4096)
                                          + ((b[3] - 128) * 64) + (b[4] - 128)
                      \* overlong forms, surrogates and values past U+10FFFF are refused
                      bad == \/ n = 3 /\ (cp < 2048 \/ (cp >= 55296 /\ cp < 57344))
                             \/ n = 4 /\ (cp < 65536 \/ cp > 1114111)
                      rest == Decode(SubSeq(b, n + 1, Len(b)))
                  IN  IF bad \/ ~rest.ok THEN DecodeError
                      ELSE [ok |-> TRUE, str |-> <<cp>> \o rest.str]

\* os.path.basename: what follows the last "/" (code point 47)
RECURSIVE Basename(_)
Basename(path) ==
    IF path = <<>> THEN <<>>
    ELSE IF path[Len(path)] = 47 THEN <<>>
    ELSE Basename(SubSeq(path, 1, Len(path) - 1)) \o <<path[Len(path)]>>

\* f.read(4096): the size of one read of the file
ChunkSize == 4096

\* the largest file the model sends has MaxChunks full chunks and one byte more
MaxChunks == 2
FileSizes == {(k * ChunkSize) + d : k \in 0..MaxChunks, d \in {0, 1}}

\* the local paths the orchestrator hands over: "d/x.p", "/é" and "中.p"
LocalPaths == {<<100, 47, 120, 46, 112>>, <<47, 233>>, <<20013, 46, 112>>}

\* the paths a receiver answers with: "/r" and "é"
RemotePaths == {<<47, 114>>, <<233>>}

\* the fields send_file writes before the body (lines 461-469)
NameLenField(filename) == Pack32(Len(Encode(Basename(filename))))
NameField(filename) == Encode(Basename(filename))
SizeField(file_size) == Pack64(file_size)

\* f.read() with no size: the rest of the file
ReadChunkWhole(offset, size) == <<offset, size>>
\* f.read(4096) at an offset of a file of a size: the bytes [from, to) it returns
ReadChunk(offset, size) == <<offset, Min(offset + ChunkSize, size)>>

\* the answer of a conforming receiver for a path
Ack(path) == Pack32(Len(Encode(path))) \o Encode(path)

\* what a peer may send back: the answer for a path, an answer of length 0,
\* an answer that starts with a byte UTF-8 never has, an answer cut inside a
\* two-byte character, and an answer with a byte more than its length says
FullAnswers ==
    {Ack(p) : p \in RemotePaths}
        \cup {Pack32(0), Pack32(1) \o <<255>>, Pack32(2) \o <<195, 40>>, Pack32(1) \o <<47, 114>>}

\* a peer sends a prefix of an answer, then closes, resets, or stays silent
PeerPlans ==
    UNION {{[bytes |-> SubSeq(a, 1, k), then |-> t] :
               k \in 0..Len(a), t \in {"close", "reset", "silent"}} : a \in FullAnswers}

\* ---- send_file and the plugin's generate_image: the steps -------------------------

\* what send_file returns: None, or the path the receiver answered with
RetNone == [none |-> TRUE, path |-> <<>>]
RetPath(p) == [none |-> FALSE, path |-> p]

\* what the plugin's generate_image returns: (None, None) or (image_url, image_path)
NoImage == [url |-> None, path |-> <<>>]

IdleXfer ==
    [pc |-> "idle", nap |-> None, url |-> None, image_path |-> <<>>,
     filename |-> <<>>, size |-> 0, writer |-> FALSE, hdr |-> <<>>, chunks |-> <<>>,
     offset |-> 0, opened |-> FALSE, buffered |-> <<>>,
     peer |-> [bytes |-> <<>>, then |-> "close"], consumed |-> 0,
     stage |-> None, need |-> 0, data |-> <<>>, ret |-> RetNone, caught |-> None,
     closes |-> 0, close_failed |-> FALSE, ops |-> <<>>, out |-> NoImage]

Op(x, o) == [x EXCEPT !.ops = Append(@, o)]

\* what writer.write(data) leaves in the transport's buffer until a drain is over
Written(what, n) == [what |-> what, len |-> n]

\* the values of nap_server_address: unset, the default, and a remote host
NapAddresses == {"", "localhost", "nap-host"}

\* line 1098: the transfer is made for an address that is set and not the default
TransferWanted(nap) == nap # "" /\ nap # "localhost"

\* the result of send_file taken as it is
PluginReturnRaw(x) ==
    [x EXCEPT !.pc = "done", !.out = [url |-> x.url, path |-> x.ret.path]]
\* the url rebuilt from the path the receiver answered with
PluginReturnRemoteUrl(x) ==
    [x EXCEPT !.pc = "done",
              !.out = IF x.ret.none \/ x.ret.path = <<>>
                      THEN [url |-> x.url, path |-> x.image_path]
                      ELSE [url |-> "remote_url", path |-> x.ret.path]]
\* lines 1101-1110: a truthy result replaces the local path; (url, path) returned
PluginReturn(x) ==
    [x EXCEPT !.pc = "done",
              !.out = [url |-> x.url,
                       path |-> IF x.ret.none \/ x.ret.path = <<>> THEN x.image_path
                                ELSE x.ret.path]]

\* the finally block without its close
CloseSkipped(x) == [x EXCEPT !.pc = "closing"]
\* writer.close() of the finally block
CloseWriter(x) == Op([x EXCEPT !.closes = @ + 1, !.pc = "closing"], "close")

\* the finally block (lines 511-518) on the way out with the result ret: the
\* writer, if there is one, is closed and wait_closed() awaited; without a
\* writer send_file returns at once
Finally(x, ret) ==
    LET x1 == [x EXCEPT !.ret = ret]
    IN  IF x.writer THEN CloseWriter(x1) ELSE PluginReturn(Op(x1, "return"))

\* the except clause that takes an exception of send_file's body: line 502
\* (ConnectionError, TimeoutError), line 505 (OSError, IOError), line 508
\* (Exception); each returns None
Except(x, exc) ==
    LET clause == IF exc \in {"ConnectionError", "TimeoutError"} THEN "line 502"
                  ELSE IF exc = "OSError" THEN "line 505"
                  ELSE "line 508"
    IN  Finally([x EXCEPT !.caught = clause], RetNone)

\* the exceptions asyncio.open_connection fails with
ConnectErrors == {"ConnectionError", "TimeoutError", "OSError"}

\* lines 455-470: the connection is there; name length, name and size are
\* written and the first drain awaited.  os.path.getsize may raise
OnConnect(x, o, stat_ok) ==
    IF o # "ok" THEN Except(x, o)
    ELSE LET x1 == Op(Op(Op([x EXCEPT !.writer = TRUE], "connect"), "write_name_len"),
                      "write_name")
             x2 == [x1 EXCEPT !.hdr = NameLenField(x.filename) \o NameField(x.filename),
                              !.buffered = <<Written("name_len", 4),
                                             Written("name", Len(NameField(x.filename)))>>]
         IN  IF ~stat_ok THEN Except(x2, "OSError")
             ELSE Op(Op([x2 EXCEPT !.hdr = @ \o SizeField(x.size),
                                   !.buffered = Append(@, Written("size", 8)),
                                   !.pc = "drain"],
                        "write_size"), "drain")

\* the body is written: recv_all(reader, 4) awaits its first read (lines 480-481)
StartRecv(x, plan) ==
    Op([x EXCEPT !.pc = "recv", !.stage = "len", !.need = 4, !.data = <<>>,
                 !.peer = plan, !.consumed = 0], "read_len")

\* lines 471-477, from a drain that is over to the next one: the file is opened
\* before the first read; f.read(4096); no data ends the loop, else the chunk is
\* written and the drain awaited.  open and read may raise OSError
OnDrain(x, ok, file_ok, plan) ==
    IF ~ok THEN Except(x, "ConnectionError")
    ELSE IF ~file_ok THEN Except([x EXCEPT !.buffered = <<>>], "OSError")
    ELSE LET x1 == Op([x EXCEPT !.buffered = <<>>, !.opened = TRUE], "read_file")
             chunk == ReadChunk(x.offset, x.size)
         IN  IF chunk[1] = chunk[2] THEN StartRecv(x1, plan)
             ELSE Op(Op([x1 EXCEPT !.chunks = Append(@, chunk), !.offset = chunk[2],
                                   !.buffered = <<Written("chunk", chunk[2] - chunk[1])>>],
                        "write_chunk"),
                     "drain")

\* the four bytes of the length returned as the path
OnLengthOnly(x) == Finally(x, RetPath(x.data))
\* a length of 0 taken as an empty path received
OnLengthZero(x) ==
    LET file_abs_path_len == Unpack(x.data)
    IN  IF file_abs_path_len = 0 THEN Finally(x, RetPath(<<>>))
        ELSE Op([x EXCEPT !.stage = "path", !.need = file_abs_path_len, !.data = <<>>],
                "read_path")
\* lines 483-494, with the path length received: a length of 0 makes recv_all
\* return an empty bytearray at once, which is falsy
OnLength(x) ==
    LET file_abs_path_len == Unpack(x.data)
    IN  IF file_abs_path_len = 0 THEN Finally(x, RetNone)
        ELSE Op([x EXCEPT !.stage = "path", !.need = file_abs_path_len, !.data = <<>>],
                "read_path")

\* the bytes of the path returned undecoded
OnPathRaw(x) == Finally(x, RetPath(x.data))
\* the path decoded as far as it can be, whatever the bytes
OnPathLenient(x) == Finally(x, RetPath(Decode(x.data).str))
\* lines 491-494, with the path received: decoded, or a UnicodeDecodeError
OnPath(x) ==
    LET d == Decode(x.data)
    IN  IF d.ok THEN Finally(x, RetPath(d.str)) ELSE Finally(x, RetNone)

\* recv_all (lines 521-546) after one reader.read(n - len(data)): k bytes came
\* (k = 0: the peer closed; "reset": the read raised), and the caller's code
\* runs once the n bytes are there
OnRead(x, k) ==
    IF k = 0 THEN Finally(x, RetNone)
    ELSE LET got == SubSeq(x.peer.bytes, x.consumed + 1, x.consumed + k)
             x1 == [x EXCEPT !.data = @ \o got, !.consumed = @ + k]
         IN  IF Len(x1.data) < x.need
             THEN Op(x1, IF x.stage = "len" THEN "read_len" ELSE "read_path")
             ELSE IF x.stage = "len" THEN OnLength(x1)
             ELSE OnPath(x1)

\* wait_closed() is over, cleanly or with an exception that is logged (line
\* 517): send_file returns what it had determined
OnClosed(x, ok) ==
    PluginReturn(Op([x EXCEPT !.close_failed = ~ok], "return"))

\* the plugin's generate_image up to the first suspension of send_file (lines
\* 1070-1100): no key list or no image ends it with (None, None); without a
\* remote address the local pair is returned
OnGenerate(x, keys, gen, nap, path, size) ==
    IF ~keys \/ gen = "Failure" THEN [x EXCEPT !.pc = "done", !.nap = nap, !.out = NoImage]
    ELSE LET x1 == [x EXCEPT !.nap = nap, !.url = "file_url", !.image_path = path]
         IN  IF TransferWanted(nap)
             THEN [x1 EXCEPT !.pc = "connect", !.filename = path, !.size = size]
             ELSE PluginReturn(x1)

\* open(filename, "wb"): the file is truncated
OpenTruncating(d, filename) == [d EXCEPT ![filename].content = "empty"]
\* open(filename, "rb") and f.read (lines 471-473): the file is only read
OpenSource(d, filename) == d

\* the image directory holds no file before the orchestrator wrote its own
InitXfer ==
    /\ mode = "xfer"
    /\ api_key_index = 0
    /\ last_saved_image = [url |-> NoPath, path |-> NoPath]
    /\ disk = <<>>
    /\ call = [c \in Calls |-> IdleCall]
    /\ pool = [api_keys |-> <<>>, start |-> 0, rotations |-> 0, got |-> None]
    /\ lock = {}
    /\ attempt = [pc |-> "idle"]
    /\ xfer = [pc |-> "off"]
    /\ clock = [now |-> 0, ticks |-> 0, utc_offset |-> 0]

PluginGenerate ==
    /\ mode = "xfer" /\ xfer.pc = "off"
    /\ \E keys \in BOOLEAN, gen \in {"Success", "Failure"}, nap \in NapAddresses,
          path \in LocalPaths, size \in FileSizes :
          /\ xfer' = OnGenerate(IdleXfer, keys, gen, nap, path, size)
          \* the orchestrator's artifact is the file of the directory
          /\ disk' = IF keys /\ gen = "Success" THEN (path :> File("full", "png", 0))
                     ELSE disk
    /\ UNCHANGED <<api_key_index, last_saved_image, call, mode, pool, lock, attempt, clock>>

Connect ==
    /\ xfer.pc = "connect"
    /\ \E o \in {"ok"} \cup ConnectErrors, stat_ok \in BOOLEAN :
          xfer' = OnConnect(xfer, o, stat_ok)
    /\ UNCHANGED <<api_key_index, last_saved_image, disk, call, mode, pool, lock, attempt, clock>>

Drain ==
    /\ xfer.pc = "drain"
    /\ \E ok \in BOOLEAN, file_ok \in BOOLEAN, plan \in PeerPlans :
          /\ xfer' = OnDrain(xfer, ok, file_ok, plan)
          /\ disk' = IF ok /\ file_ok THEN OpenSource(disk, xfer.filename) ELSE disk
    /\ UNCHANGED <<api_key_index, last_saved_image, call, mode, pool, lock, attempt, clock>>

\* reader.read returns: some of the bytes the peer sends, or, when the peer has
\* sent all it will, the end of the stream or an error.  A silent peer leaves
\* the read pending
Recv ==
    /\ xfer.pc = "recv"
    /\ LET left == Len(xfer.peer.bytes) - xfer.consumed
       IN  IF left > 0
           THEN \E k \in 1..Min(left, xfer.need - Len(xfer.data)) : xfer' = OnRead(xfer, k)
           ELSE xfer.peer.then # "silent" /\ xfer' = OnRead(xfer, 0)
    /\ UNCHANGED <<api_key_index, last_saved_image, disk, call, mode, pool, lock, attempt, clock>>

Closed ==
    /\ xfer.pc = "closing"
    /\ \E ok \in BOOLEAN : xfer' = OnClosed(xfer, ok)
    /\ UNCHANGED <<api_key_index, last_saved_image, disk, call, mode, pool, lock, attempt, clock>>

NextXfer == PluginGenerate \/ Connect \/ Drain \/ Recv \/ Closed
SpecXfer == InitXfer /\ [][NextXfer]_vars
\* the steps of send_file are taken when they can be: the event loop runs
SpecXferLive == InitXfer /\ [][NextXfer]_vars /\ WF_vars(NextXfer)

\* ---- reading the history of the observed call ---------------------------------

Obs == call[Observed]
ObsN == Len(Obs.api_keys)
ObsM == Obs.max_retry_attempts
Blocks == DOMAIN Obs.log

PostsOf(b) == {i \in DOMAIN Obs.log[b].ev : Obs.log[b].ev[i].t = "post"}
SleepsOf(b) == {i \in DOMAIN Obs.log[b].ev : Obs.log[b].ev[i].t = "sleep"}

RECURSIVE PostsUpTo(_)
PostsUpTo(b) == IF b = 0 THEN 0 ELSE Cardinality(PostsOf(b)) + PostsUpTo(b - 1)
TotalPosts == PostsUpTo(Len(Obs.log))

\* the block is over: the call went on to a later block, or returned
BlockOver(b) == b < Len(Obs.log) \/ Obs.pc = "done"
AllTransient(b) == \A i \in PostsOf(b) : Obs.log[b].ev[i].out = "transient"
IsLastEvent(b, i) == b = Len(Obs.log) /\ i = Len(Obs.log[b].ev)
Saved(e) == e.out \in {"saved_url", "saved_b64"}
OtherActive == \E c \in Calls \ {Observed} : Active(c)

\* C1: a generate() call with N credentials and max_retry_attempts = M never
\* makes more than N * M POST attempts, whatever the responses and however
\* other calls interleave.
C1_RetryCap == TotalPosts <= ObsN * ObsM

C1_Witness ==
    /\ ObsN = 2 /\ ObsM = 2 /\ TotalPosts = 4
    /\ OtherActive

\* C2: a credential block in which every attempt ended in a transient error
\* has exactly max_retry_attempts POST attempts when it is over (the call
\* rotates or gives up in the same step as the last of them), never more
\* before that, and every one of them carries the credential next() returned
\* for the block.
C2_TransientBlock ==
    \A b \in Blocks :
        AllTransient(b) =>
            /\ Cardinality(PostsOf(b)) <= ObsM
            /\ BlockOver(b) => Cardinality(PostsOf(b)) = ObsM
            /\ \A i \in PostsOf(b) : Obs.log[b].ev[i].k = Obs.log[b].key

C2_Witness ==
    /\ Len(Obs.log) = 2 /\ ObsM = 2
    /\ AllTransient(1) /\ Cardinality(PostsOf(1)) = 2
    /\ Obs.log[1].atRot # Obs.log[1].seen

\* C3: after a 429 on the first attempt with a credential the call makes no
\* backoff sleep and no further attempt in that block, and no attempt with
\* that credential in any later block of the same call.
C3_QuotaShortCircuit ==
    \A b \in Blocks :
        (Obs.log[b].ev # <<>> /\ Obs.log[b].ev[1].s429) =>
            /\ Len(Obs.log[b].ev) = 1
            /\ \A b2 \in Blocks : b2 > b =>
                  \A i \in PostsOf(b2) : Obs.log[b2].ev[i].k # Obs.log[b].ev[1].k

\* C4: an attempt answered 200 from which no image is extracted is the last
\* event of the call, which returns the failure pair as NoImageFound.
C4_NoImageTerminal ==
    \A b \in Blocks : \A i \in PostsOf(b) :
        Obs.log[b].ev[i].out \in {"none", "raised"} =>
            /\ IsLastEvent(b, i)
            /\ Obs.pc = "done" /\ Obs.ret.kind = "NoImageFound"

\* C5: with no two calls overlapping, the blocks of a call take the credentials
\* in cyclic list order from the cursor the call found, every attempt of a
\* block carries the block's credential, and the call returns Success exactly
\* at the first 200 whose image was saved: that attempt is the last event of
\* the call and the result has a path.  With [k1, k2], M = 2 and the cursor at
\* 0, k1 failing twice and k2 answering an inline image gives 2 attempts on k1,
\* 1 on k2 and Success.
C5_CyclicOrderSuccess ==
    /\ \A b \in Blocks :
          /\ Obs.log[b].key = Obs.api_keys[((Obs.log[1].seen + b - 1) % ObsN) + 1]
          /\ \A i \in PostsOf(b) : Obs.log[b].ev[i].k = Obs.log[b].key
    /\ \A b \in Blocks : \A i \in PostsOf(b) :
          Saved(Obs.log[b].ev[i]) =>
             /\ IsLastEvent(b, i)
             /\ Obs.pc = "done" /\ Obs.ret.kind = "Success" /\ Obs.ret.path # NoPath
    /\ Obs.ret.kind = "Success" =>
          Saved(Obs.log[Len(Obs.log)].ev[Len(Obs.log[Len(Obs.log)].ev)])

C5_Witness ==
    /\ Obs.api_keys = <<"k1", "k2">> /\ ObsM = 2 /\ Len(Obs.log) = 2
    /\ Obs.log[1].seen = 0
    /\ Cardinality(PostsOf(1)) = 2 /\ AllTransient(1)
    /\ \A i \in PostsOf(1) : Obs.log[1].ev[i].k = "k1"
    /\ Len(Obs.log[2].ev) = 1
    /\ Obs.log[2].ev[1].k = "k2" /\ Obs.log[2].ev[1].out = "saved_b64"
    /\ Obs.ret.kind = "Success" /\ Obs.ret.path # NoPath

\* C6: every call that has started returns, given that every request, sleep
\* and file operation completes; a call (with credentials: an empty list is
\* refused at entry) that has returned has exactly one of the outcomes
\* Success, NoImageFound and Exhausted, and one that has not has none;
\* Exhausted is returned only from the block of the last credential, by a
\* step that ends that block.
Outcomes == {"Success", "NoImageFound", "Exhausted"}
ReturnsExhausted(c) ==
    call[c].pc # "done" /\ call'[c].pc = "done" /\ call'[c].ret.kind = "Exhausted"
C6_Returns ==
    /\ \A c \in Calls : (call[c].pc # "idle") ~> (call[c].pc = "done")
    /\ [](\A c \in Calls :
            call[c].api_keys # <<>> =>
                ((call[c].pc = "done") <=> (call[c].ret.kind \in Outcomes)))
    /\ [](\A c \in Calls :
            call[c].pc # "done" => call[c].ret.kind = "none")
    /\ [][\A c \in Calls :
            ReturnsExhausted(c) =>
               /\ call[c].api_attempt = Len(call[c].api_keys) - 1
               /\ call[c].pc \in {"post", "download", "write"}]_vars

C6_Witness ==
    /\ Len(call[1].api_keys) = 2 /\ call[1].ret.kind = "Exhausted"
    /\ call[2].ret.kind = "Success"

\* C7: at the step in which a call returns Success, the file at the returned
\* path is on disk with its whole content, and it was already there before
\* that step, whatever the other calls and their cleanup runs did meanwhile.
ReturnsSuccess(c) ==
    call[c].pc # "done" /\ call'[c].pc = "done" /\ call'[c].ret.kind = "Success"
C7_FileExistsAtReturn ==
    [][\A c \in Calls :
          ReturnsSuccess(c) =>
             LET path == call'[c].ret.path
             IN  /\ path \in DOMAIN disk /\ disk[path].content = "full"
                 /\ path \in DOMAIN disk' /\ disk'[path].content = "full"
                 /\ call'[c].ret.url = FileUrl(path)]_vars

C7_Witness ==
    /\ call[1].ret.kind = "Success" /\ call[1].ret.path \in DOMAIN disk
    /\ call[2].pc = "close"
    /\ OldArtifact \notin DOMAIN disk

\* C8: on a fixed list of N credentials and with no other caller, N
\* consecutive rotate() calls bring the cursor back to where it started (with
\* N = 1 a rotate() leaves it where it is), and next() returns
\* credentials[cursor mod N], an element of the list.
PoolN == Len(pool.api_keys)
C8_RotationFairness ==
    pool.api_keys # <<>> =>
        /\ pool.rotations = PoolN => api_key_index = pool.start
        /\ PoolN = 1 => api_key_index = pool.start
        /\ api_key_index = (pool.start + pool.rotations) % PoolN
        /\ pool.got # None =>
              /\ pool.got \in {pool.api_keys[i] : i \in 1..PoolN}
              /\ pool.got = pool.api_keys[(api_key_index % PoolN) + 1]

C8_Witness ==
    /\ PoolN = 3 /\ pool.rotations = 3 /\ pool.start = 2 /\ api_key_index = 2

\* C9 (as claimed): the cursor is a valid index of the credential list of
\* every call that is using the pool.
C9_CursorValidIndex ==
    \A c \in Calls :
        Active(c) => (0 <= api_key_index /\ api_key_index < Len(call[c].api_keys))

\* C9 (amended): the cursor is never negative and is below the length of the
\* longest list any call has passed so far (it is 0 before any call); so it is
\* a valid index for every call when all the calls pass lists of one length.
Started == {c \in Calls : call[c].pc # "idle" /\ call[c].api_keys # <<>>}
C9_CursorBelowLongest ==
    /\ api_key_index >= 0
    /\ api_key_index = 0 \/ \E c \in Started : api_key_index < Len(call[c].api_keys)
    /\ (\A c, d \in Started : Len(call[c].api_keys) = Len(call[d].api_keys)) =>
          \A c \in Started : api_key_index < Len(call[c].api_keys)

C9_Witness ==
    \E c \in Calls : Active(c) /\ api_key_index >= Len(call[c].api_keys)

\* C10: the cursor a call saw in next() is the cursor its following rotate()
\* finds.
C10_CursorStable ==
    \A b \in Blocks : Obs.log[b].atRot # -1 => Obs.log[b].atRot = Obs.log[b].seen

\* C11: a call that returns Exhausted has made at least one POST attempt with
\* every credential of its list, however other calls interleave.
KeysTried == UNION {{Obs.log[b].ev[i].k : i \in PostsOf(b)} : b \in Blocks}
C11_ExhaustedTriedAll ==
    Obs.ret.kind = "Exhausted" =>
        \A j \in 1..ObsN : Obs.api_keys[j] \in KeysTried

\* C12: a call that is sending its request, waiting for the answer or
\* sleeping in backoff does not hold the pool lock; whoever holds the lock is
\* inside a method of the state object, one step away from releasing it, so
\* a suspended call never keeps another call from next() or rotate().
\* Several calls can be in the request at the same time (C12_Witness).
Suspended(c) == call[c].pc \in {"post", "backoff", "download", "write", "close"}
C12_LockFreeWhileSuspended ==
    /\ \A c \in Calls : Suspended(c) => c \notin lock
    /\ \A c \in lock : call[c].pc \in LockPcs
    /\ Cardinality(lock) <= 1

C12_Witness ==
    /\ \A c \in Calls : call[c].pc = "post"
    /\ lock = {}

\* C13: a block the call has rotated away from ends with a POST attempt, and
\* either that attempt was answered quota-exceeded or the block holds
\* max_retry_attempts attempts that all failed; a block with transient errors
\* only is never left before its max_retry_attempts attempts are made.
Rotated(b) == Obs.log[b].atRot # -1
LastEv(b) == Obs.log[b].ev[Len(Obs.log[b].ev)]
C13_RotateOnlyAfterBudget ==
    \A b \in Blocks :
        Rotated(b) =>
            /\ LastEv(b).t = "post"
            /\ \/ LastEv(b).out \in {"q429", "q402"}
               \/ /\ Cardinality(PostsOf(b)) = ObsM
                  /\ \A i \in PostsOf(b) : Obs.log[b].ev[i].out \in {"transient", "raised"}
            /\ AllTransient(b) => Cardinality(PostsOf(b)) = ObsM

C13_Witness ==
    /\ ObsM = 2 /\ Len(Obs.log) = 2 /\ Rotated(1)
    /\ Len(Obs.log[1].ev) = 3
    /\ Obs.log[1].ev[1].out = "transient" /\ Obs.log[1].ev[3].out = "q402"
    /\ OtherActive

\* C14: the classifier takes status 429 as quota exceeded; status 402 as
\* quota exceeded exactly when the body mentions "insufficient" (in any
\* case); a 402 that does not, and every other status that is not 200, as
\* retryable: the attempt uses up one retry of the credential (the call
\* sleeps and retries, or leaves the block if that was the last retry).
Answered == attempt.pc = "answered" /\ attempt.r.status # 0
Mentions(body) == body.form = "object" /\ body.error # "absent"
                     /\ body.text \in {"insufficient", "INSUFFICIENT"}
RetryUsed ==
    /\ attempt.taken.out = "transient"
    /\ IF attempt.retry_attempt < MaxRetryIdx
       THEN attempt.taken.pc = "backoff"
               /\ attempt.taken.retry_attempt = attempt.retry_attempt + 1
       ELSE attempt.taken.blocks = 2
C14_Classifier ==
    Answered =>
        /\ attempt.r.status = 429 => attempt.taken.out = "q429"
        /\ attempt.r.status = 402 =>
              IF Mentions(attempt.r.body) THEN attempt.taken.out = "q402" ELSE RetryUsed
        /\ attempt.r.status \notin {200, 402, 429} => RetryUsed

\* C15: in every block the first event is a POST attempt (no sleep before the
\* first attempt with a credential); every later attempt follows exactly one
\* sleep, whose delay for retry index r is 2, 4, 8, 10, 10, ... seconds; and a
\* block the call rotates away from ends with an attempt, not with a sleep.
Schedule(r) == IF r = 1 THEN 2 ELSE IF r = 2 THEN 4 ELSE IF r = 3 THEN 8 ELSE 10
\* the retry index of the attempt the event at position i belongs to
RetryIdxAt(i) == i \div 2
C15_BackoffSchedule ==
    \A b \in Blocks :
        LET ev == Obs.log[b].ev
        IN  /\ ev # <<>> => ev[1].t = "post"
            /\ \A i \in DOMAIN ev :
                  /\ ev[i].t = "sleep" =>
                        /\ i > 1 /\ ev[i - 1].t = "post"
                        /\ ev[i].d = Schedule(RetryIdxAt(i))
                        /\ ev[i].d = Min(2 ^ RetryIdxAt(i), 10)
                  /\ (ev[i].t = "post" /\ i > 1) => ev[i - 1].t = "sleep"
            /\ Rotated(b) => LastEv(b).t = "post"

C15_Witness ==
    /\ ObsM = MaxRetryIdx + 1 /\ Len(Obs.log) = 2 /\ Rotated(1)
    /\ Cardinality(PostsOf(1)) = ObsM
    /\ \E i \in SleepsOf(1) : Obs.log[1].ev[i].d = 10 /\ RetryIdxAt(i) = MaxRetryIdx
    /\ \E i \in SleepsOf(1) : Obs.log[1].ev[i].d = 8

\* C16: a 200 body that holds both a non-empty data array with a url item and
\* a choices[0].message.images array is handled by the data branch: the image
\* is the one at the data url (the call goes on to download it) and the
\* choices branch is not entered (nothing is saved from the inline image).
BothImages ==
    /\ attempt.pc = "answered" /\ attempt.r.status = 200
    /\ attempt.r.body.form = "object" /\ attempt.r.body.data = "url"
    /\ attempt.r.body.choices \in {"images", "images_bad", "images_other"}
C16_DataBeforeChoices ==
    BothImages =>
        /\ attempt.branch = "data" /\ attempt.parse = "url"
        /\ attempt.taken.pc = "download" /\ attempt.taken.out = "pending"

C16_Witness == BothImages /\ attempt.r.body.choices = "images"

\* C17: a 200 answer whose body has missing or malformed fields (choices
\* empty, no message, no content, a data item that is not an object, ...) is
\* taken as "no image": the call returns NoImageFound at once, and the
\* attempt is not counted as a retryable failure.
MalformedBody(body) ==
    /\ body.form = "object"
    /\ \/ body.data \in {"other", "not_object"}
       \/ /\ body.data \in {"absent", "empty"}
          /\ body.choices \in {"absent", "empty", "no_message", "no_content",
                               "content_null", "images_other"}
C17_MalformedIsNoImage ==
    (attempt.pc = "answered" /\ attempt.r.status = 200 /\ MalformedBody(attempt.r.body)) =>
        /\ attempt.taken.out = "none"
        /\ attempt.taken.pc = "done" /\ attempt.taken.ret = "NoImageFound"

\* C18: when saving the image of a 200 answer fails, the call does not return
\* on the spot: on the inline-base64 path as on the URL path it goes on as
\* after any failed attempt, sleeping and retrying while retries remain,
\* else moving to the next credential, else returning Exhausted.
StoreFails(c) == call[c].pc = "write" /\ call'[c].pc \notin {"write", "close"}
C18_StoreFailureKeepsLoop ==
    [][\A c \in Calls :
          StoreFails(c) =>
             IF ~LastRetry(call[c])
             THEN call'[c].pc = "backoff"
             ELSE IF MoreKeys(call[c])
                  THEN call'[c].pc = "post" /\ call'[c].api_attempt = call[c].api_attempt + 1
                  ELSE call'[c].pc = "done" /\ call'[c].ret.kind = "Exhausted"]_vars

\* C19: a call made with an empty credential list returns the failure pair in
\* its first step: it never sends a request and never sleeps, and the cursor,
\* last_saved_image, the files and the lock are as before.  next() on an
\* empty list raises an error, moves nothing and leaves the lock free.
StartsEmpty(c) ==
    call[c].pc = "idle" /\ call'[c].pc # "idle" /\ call'[c].api_keys = <<>>
DirectRaises == pool' # pool /\ pool'.got = "ValueError"
C19_EmptyListFailsAtOnce ==
    /\ [](\A c \in Calls : call[c].api_keys = <<>> => call[c].pc \in {"idle", "done"})
    /\ [][\A c \in Calls :
            StartsEmpty(c) =>
               /\ call'[c].pc = "done"
               /\ call'[c].ret.kind \notin {"Success", "none"}
               /\ call'[c].ret.url = NoPath /\ call'[c].ret.path = NoPath
               /\ api_key_index' = api_key_index
               /\ last_saved_image' = last_saved_image
               /\ disk' = disk /\ lock' = lock]_vars
    /\ [][DirectRaises =>
            /\ pool'.api_keys = <<>>
            /\ lock' = {}
            /\ api_key_index' = api_key_index
            /\ last_saved_image' = last_saved_image]_vars

C19_Witness ==
    /\ call[1].pc = "done" /\ call[1].api_keys = <<>> /\ call[1].ret.kind = "NoKeys"
    /\ Active(2) /\ api_key_index = 1
    /\ pool.got = "ValueError" /\ lock = {}

\* C20: for every model identifier and every apiBase, set or not, the payload
\* and the path of the request agree: the payload {model, prompt, n, size}
\* goes to a URL ending in /v1/images/generations only, the payload {model,
\* messages, max_tokens, temperature} to one ending in /v1/chat/completions
\* only.
UrlEnd == attempt.url[Len(attempt.url)]
C20_PayloadMatchesPath ==
    attempt.pc = "built" =>
        /\ attempt.payload = {"model", "prompt", "n", "size"} => UrlEnd = ImagesPath
        /\ attempt.payload = {"model", "messages", "max_tokens", "temperature"} =>
              UrlEnd = ChatPath

\* ---- a conforming receiver, reading what send_file wrote ---------------------------

ReceivedNameLen == Unpack(SubSeq(xfer.hdr, 1, 4))
ReceivedName == Decode(SubSeq(xfer.hdr, 5, 4 + ReceivedNameLen))
ReceivedSize == Unpack(SubSeq(xfer.hdr, 5 + ReceivedNameLen, 12 + ReceivedNameLen))
\* the chunks written are the bytes [0, size) of the file, in order
ReceivedBody(size) ==
    /\ (size = 0) = (xfer.chunks = <<>>)
    /\ xfer.chunks # <<>> =>
          /\ xfer.chunks[1][1] = 0
          /\ xfer.chunks[Len(xfer.chunks)][2] = size
          /\ \A i \in 1..(Len(xfer.chunks) - 1) : xfer.chunks[i][2] = xfer.chunks[i + 1][1]

\* send_file has written the body and reads the answer, or is past that
Reading == mode = "xfer" /\ xfer.pc \in {"recv", "closing", "done"} /\ xfer.stage # None

\* C21: frame round trip.  Once the body is written, the bytes sent are the
\* 4-byte big-endian length of the UTF-8 base name, the base name, the 8-byte
\* big-endian file size and the body, so that a conforming receiver reads back
\* the base name and the body; and when the receiver answers with the 4-byte
\* length and the UTF-8 bytes of a non-empty path, send_file returns that path.
C21_FrameRoundTrip ==
    Reading =>
        /\ xfer.hdr = Pack32(Len(Encode(Basename(xfer.filename))))
                        \o Encode(Basename(xfer.filename)) \o Pack64(xfer.size)
        /\ ReceivedName = [ok |-> TRUE, str |-> Basename(xfer.filename)]
        /\ ReceivedSize = xfer.size
        /\ ReceivedBody(xfer.size)
        /\ \A p \in RemotePaths :
              xfer.peer.bytes = Ack(p) /\ xfer.pc \in {"closing", "done"}
                  => xfer.ret = RetPath(p)
C21_Witness ==
    /\ Reading /\ xfer.pc = "done"
    /\ xfer.filename = <<20013, 46, 112>> /\ Len(xfer.chunks) = MaxChunks + 1
    /\ xfer.ret = RetPath(<<233>>)

\* ---- the operations of send_file, in the order they were made ---------------------

\* the state of the sender an operation belongs to: 1 CONNECT, 2 SEND_NAME_LEN,
\* 3 SEND_NAME, 4 SEND_SIZE, 5 SEND_BODY, 6 RECV_ACK_PATH_LEN, 7 RECV_ACK_PATH
SenderState(o) ==
    CASE o = "connect" -> 1
      [] o = "write_name_len" -> 2
      [] o = "write_name" -> 3
      [] o = "write_size" -> 4
      [] o \in {"drain", "read_file", "write_chunk"} -> 5
      [] o = "read_len" -> 6
      [] o = "read_path" -> 7
      [] OTHER -> 0
\* the operations before the close and the return
Protocol == SelectSeq(xfer.ops, LAMBDA o : SenderState(o) > 0)
Writes == {"write_name_len", "write_name", "write_size", "write_chunk"}
Reads == {"read_len", "read_path"}
Returned == mode = "xfer" /\ xfer.pc = "done" /\ xfer.ops # <<>>

\* C22: the sender goes through CONNECT, SEND_NAME_LEN, SEND_NAME, SEND_SIZE,
\* SEND_BODY, RECV_ACK_PATH_LEN, RECV_ACK_PATH in this order, one after the
\* other and never back; it reads from the socket only when the whole body is
\* written, writes nothing once it reads, and returns a path only from
\* RECV_ACK_PATH.
C22_SenderOrder ==
    mode = "xfer" /\ xfer.pc \notin {"off", "idle"} =>
        /\ Protocol # <<>> => SenderState(Protocol[1]) = 1
        /\ \A i \in 1..(Len(Protocol) - 1) :
              /\ SenderState(Protocol[i]) <= SenderState(Protocol[i + 1])
              /\ SenderState(Protocol[i + 1]) <= SenderState(Protocol[i]) + 1
              /\ SenderState(Protocol[i]) < 5 => SenderState(Protocol[i + 1]) # SenderState(Protocol[i])
        /\ (\E i \in DOMAIN xfer.ops : xfer.ops[i] \in Reads) =>
              /\ xfer.offset = xfer.size
              /\ ReceivedBody(xfer.size)
        /\ \A i, j \in DOMAIN xfer.ops :
              i < j /\ xfer.ops[i] \in Reads => xfer.ops[j] \notin Writes
        /\ Returned /\ ~xfer.ret.none =>
              Protocol # <<>> /\ Protocol[Len(Protocol)] = "read_path"
C22_Witness ==
    /\ Returned /\ ~xfer.ret.none /\ Len(xfer.chunks) = MaxChunks + 1
    /\ Cardinality({i \in DOMAIN xfer.ops : xfer.ops[i] = "read_path"}) > 1

\* the length the peer announced, once its four bytes are read
AnnouncedLen == Unpack(SubSeq(xfer.peer.bytes, 1, 4))
\* the whole header and body are written
AllWritten ==
    /\ xfer.hdr = NameLenField(xfer.filename) \o NameField(xfer.filename) \o SizeField(xfer.size)
    /\ ReceivedBody(xfer.size)
\* the peer stopped before the byte count send_file waits for
ShortRead ==
    /\ xfer.stage # None
    /\ xfer.consumed = Len(xfer.peer.bytes)
    /\ xfer.consumed < 4 \/ xfer.consumed < 4 + AnnouncedLen

\* C23: send_file returns a path only if the connection was made, the whole
\* header and body were written, exactly 4 bytes of length and then exactly
\* that many bytes of path were received, and the bytes decoded as UTF-8, the
\* path returned being the decoded one; after a short read, an exception at any
\* stage or a decode failure it returns None.
C23_PathOnlyAfterFullAck ==
    Returned =>
        /\ ~xfer.ret.none =>
              /\ xfer.writer /\ xfer.caught = None
              /\ AllWritten
              /\ xfer.consumed = 4 + AnnouncedLen
              /\ Decode(SubSeq(xfer.peer.bytes, 5, 4 + AnnouncedLen)).ok
              /\ xfer.ret.path = Decode(SubSeq(xfer.peer.bytes, 5, 4 + AnnouncedLen)).str
        /\ ShortRead => xfer.ret.none
        /\ xfer.caught # None => xfer.ret.none
        /\ xfer.stage = "path" /\ Len(xfer.data) = xfer.need /\ ~Decode(xfer.data).ok
              => xfer.ret.none
C23_Witness ==
    /\ Returned /\ xfer.ret.none /\ ShortRead
    /\ xfer.stage = "path" /\ xfer.data # <<>>

\* the positions of an operation in the log of send_file
Positions(o) == {i \in DOMAIN xfer.ops : xfer.ops[i] = o}

\* C24: when send_file returns after a connection was made (with a path, after
\* a short read, a decode failure or an exception), the connection has been
\* closed exactly once, before the return; without a connection there is
\* nothing to close; and the end of the close, clean or not, leaves the result
\* that was determined as it is.
C24_ClosedOnce ==
    /\ [](Returned =>
            /\ xfer.closes = (IF xfer.writer THEN 1 ELSE 0)
            /\ Cardinality(Positions("close")) = xfer.closes
            /\ \A i \in Positions("close"), j \in Positions("return") : i < j)
    /\ [][mode = "xfer" /\ xfer.pc = "closing" => xfer'.ret = xfer.ret /\ xfer'.pc = "done"]_vars
C24_Witness ==
    /\ Returned /\ xfer.writer /\ xfer.closes = 1
    /\ xfer.close_failed /\ ~xfer.ret.none

\* the plugin's generate_image has returned after the orchestrator gave an image
PluginDone == mode = "xfer" /\ xfer.pc = "done" /\ xfer.url # None

\* C25: when the transfer target is unreachable or the transfer fails at any
\* stage, the plugin's generate_image still returns the url and the local path
\* the orchestrator produced, unchanged; and with no remote address configured
\* (unset, or the default "localhost") no operation of a transfer is made.
C25_FallbackToLocalPath ==
    PluginDone =>
        /\ xfer.out.url = xfer.url
        /\ xfer.ret.none => xfer.out.path = xfer.image_path
        /\ xfer.nap \in {"", "localhost"} => xfer.ops = <<>> /\ xfer.out.path = xfer.image_path
        /\ xfer.out.path \in {xfer.image_path, xfer.ret.path}
C25_Witness ==
    /\ PluginDone /\ xfer.nap = "nap-host"
    /\ xfer.caught = "line 502" /\ ~xfer.writer
    /\ xfer.out = [url |-> xfer.url, path |-> xfer.image_path]

\* C26: every exchange send_file starts eventually ends, with a path or with
\* None, also when the receiver takes the connection and the body and then
\* neither answers nor closes.
C26_TransferEnds == (mode = "xfer" /\ xfer.pc = "connect") ~> (xfer.pc = "done")

\* the chunks written and not yet drained
Undrained == {i \in DOMAIN xfer.buffered : xfer.buffered[i].what = "chunk"}

\* C27: a drain is awaited after name length, name and size are written and
\* before anything is read from the file or written of the body; a drain is
\* awaited after every chunk written, before the next read of the file; a chunk
\* has at most 4096 bytes, and at most one chunk is written and not yet drained.
C27_DrainDiscipline ==
    mode = "xfer" /\ xfer.pc \notin {"off", "idle"} =>
        /\ \A i \in DOMAIN xfer.ops :
              /\ xfer.ops[i] \in {"write_size", "write_chunk"} =>
                    i < Len(xfer.ops) /\ xfer.ops[i + 1] = "drain"
              /\ xfer.ops[i] = "read_file" => i > 1 /\ xfer.ops[i - 1] = "drain"
              /\ xfer.ops[i] = "write_chunk" => i > 1 /\ xfer.ops[i - 1] = "read_file"
        /\ \A i \in DOMAIN xfer.chunks : xfer.chunks[i][2] - xfer.chunks[i][1] <= 4096
        /\ Cardinality(Undrained) <= 1
        /\ Undrained # {} => Len(xfer.buffered) = 1 /\ xfer.buffered[1].len <= 4096
C27_Witness ==
    /\ mode = "xfer" /\ xfer.pc = "drain"
    /\ Len(xfer.chunks) = 2 /\ Undrained = {1} /\ xfer.buffered[1].len = 4096

\* ---- the store: what a run of cleanup_old_images removes ---------------------------

\* the files a step removes from the directory
Removed == (DOMAIN disk) \ (DOMAIN disk')
\* the call runs cleanup_old_images and goes on to write its file
CollectsThenWrites(c) == call[c].pc # "write" /\ call'[c].pc = "write"
\* the file has a name the store gives and one of the three extensions
InPatterns(f) == f[1] = "blessing_image" /\ disk[f].ext \in {"png", "jpg", "jpeg"}
\* the file was modified more than 15 minutes (900 s) before now
PastRetention(f) == disk[f].mtime < clock.now - 900

\* C28: cleanup_old_images removes exactly the files that match a pattern of
\* the store and were modified strictly earlier than now - 15 minutes: a file
\* modified at now - 15 min - 1 s goes, a file modified at now - 15 min or at
\* now - 14 min stays, and a file outside the patterns is never removed.  (A
\* file whose stat or unlink raises stays as well: C30.)
C28_GcBoundary ==
    [][mode = "store" =>
          /\ \A f \in Removed : InPatterns(f) /\ PastRetention(f)
          /\ \A c \in Calls : CollectsThenWrites(c) =>
                \A f \in DOMAIN disk :
                    InPatterns(f) /\ PastRetention(f) /\ ~disk[f].locked => f \in Removed]_vars
C28_Witness ==
    /\ mode = "store" /\ clock.now = 901 /\ call[2].pc = "write"
    /\ OldArtifact \notin DOMAIN disk
    /\ <<"blessing_image", -1>> \notin DOMAIN disk
    /\ <<"blessing_image", 1>> \in DOMAIN disk /\ disk[<<"blessing_image", 1>>].mtime = 1
    /\ <<"blessing_image", -2>> \in DOMAIN disk
    /\ <<"photo", 0>> \in DOMAIN disk

\* the files a step adds to the directory
Added == (DOMAIN disk') \ (DOMAIN disk)
\* the file a call writes
OwnFile(c) == <<"blessing_image", c>>

\* C29: in a save, on the base64 path and on the URL path, the run of
\* cleanup_old_images is over before the file of the call is there: the step
\* that collects finds no file of the call and adds none, and the step that
\* writes the file removes none; and no run, of this or of a concurrent call,
\* removes a file less than 15 minutes (900 s) after it was written.
C29_GcBeforeWrite ==
    [][mode = "store" =>
          /\ \A c \in Calls : CollectsThenWrites(c) =>
                /\ OwnFile(c) \notin DOMAIN disk
                /\ Added = {}
                /\ call'[c].wkind \in {"b64", "url"}
          /\ Added # {} => Removed = {}
          /\ \A c \in Calls : OwnFile(c) \in Added => call[c].pc = "write"
          /\ \A f \in Removed : clock.now - disk[f].mtime >= 900]_vars
C29_Witness ==
    /\ mode = "store" /\ call[2].pc = "write" /\ call[2].wkind = "url"
    /\ OldArtifact \notin DOMAIN disk
    /\ call[1].pc = "close" /\ OwnFile(1) \in DOMAIN disk
    /\ clock.now - disk[OwnFile(1)].mtime < 900

\* the expired files of the patterns whose stat or unlink raises
Failing == {f \in DOMAIN disk : InPatterns(f) /\ PastRetention(f) /\ disk[f].locked}

\* C30: when stat or unlink raises for an expired file during a run of
\* cleanup_old_images, that file stays and every other expired file of the
\* patterns is removed in the same run; the run raises nothing, so the save of
\* a downloaded image goes on to write its file; and the save whose write is
\* done returns success.
C30_GcFailureTolerated ==
    [][mode = "store" /\ Failing # {} =>
          /\ \A c \in Calls : CollectsThenWrites(c) =>
                /\ Failing \cap Removed = {}
                /\ \A f \in DOMAIN disk :
                      InPatterns(f) /\ PastRetention(f) /\ f \notin Failing => f \in Removed
          /\ \A c \in Calls :
                call[c].pc = "download" /\ call'[c] # call[c] /\ Removed # {}
                    => call'[c].pc = "write"
          /\ \A c \in Calls :
                call[c].pc = "close" /\ call'[c].pc = "done" =>
                    call'[c].ret.kind = "Success"]_vars
C30_Witness ==
    /\ mode = "store" /\ Failing = {OldArtifact}
    /\ <<"blessing_image", -1>> \notin DOMAIN disk
    /\ call[1].pc = "done" /\ call[1].ret.kind = "Success"
    /\ call[1].ret.path = OwnFile(1) /\ OwnFile(1) \in DOMAIN disk
    /\ disk[OwnFile(1)].mtime >= 901

\* C31: send_file neither deletes nor renames nor changes the local file: no
\* step of the exchange changes the directory, and when send_file has
\* returned, with a path or with None, the file is there with its content.
C31_SourceUntouched ==
    /\ [][mode = "xfer" /\ xfer.pc # "off" => disk' = disk]_vars
    /\ [](Returned => /\ DOMAIN disk = {xfer.filename}
                      /\ disk[xfer.filename].content = "full")
C31_Witness ==
    /\ Returned /\ ~xfer.ret.none /\ Len(xfer.chunks) = MaxChunks + 1
    /\ xfer.filename \in DOMAIN disk /\ disk[xfer.filename].content = "full"

\* C32: the pair a call returns with Success names the file this call wrote,
\* with its url, whatever other calls do at the suspension points, also on
\* the base64 path, which reads the pair from the shared last_saved_image.
C32_ReturnsOwnArtifact ==
    [][\A c \in Calls :
          ReturnsSuccess(c) =>
              /\ call'[c].ret.path = OwnFile(c)
              /\ call'[c].ret.url = FileUrl(OwnFile(c))]_vars
C32_Witness ==
    /\ mode = "concurrent"
    /\ Obs.pc = "done" /\ Obs.ret.kind = "Success" /\ Obs.ret.path = OwnFile(Observed)
    /\ LastEv(Len(Obs.log)).out = "saved_b64"
    /\ last_saved_image.path # Obs.ret.path
    /\ \E c \in Calls \ {Observed} :
          call[c].ret.kind = "Success" /\ call[c].ret.path = OwnFile(c)

\* C33: every file a call writes, of whatever image format the response names,
\* is removed by any run of cleanup_old_images that starts more than 15
\* minutes after the file was written (and can stat and unlink it), so no
\* artifact stays in the directory for good.
C33_WrittenIsCollected ==
    [][mode = "store" =>
          \A c \in Calls : CollectsThenWrites(c) =>
              \A d \in Calls :
                  /\ OwnFile(d) \in DOMAIN disk
                  /\ PastRetention(OwnFile(d))
                  /\ ~disk[OwnFile(d)].locked
                  => OwnFile(d) \in Removed]_vars

\* the observed call returns in this step; its record and its history then
ObsReturns == Obs.pc # "done" /\ call'[Observed].pc = "done" /\ call'[Observed].log # <<>>
ObsThen == call'[Observed]
StartCursor == ObsThen.log[1].seen
Rotations == {b \in Blocks : Rotated(b)}

\* C34 as stated: with no concurrent caller the cursor after Exhausted is
\* (start + N - 1) mod N.
C34_CursorAfterExhausted ==
    [][ObsReturns /\ ObsThen.ret.kind = "Exhausted" =>
          api_key_index' = (StartCursor + Len(ObsThen.api_keys) - 1) % Len(ObsThen.api_keys)]_vars

\* C34 (amended): a call with N credentials makes at most N - 1 rotate() calls
\* and none after its N-th block; with no concurrent caller, after Exhausted
\* the cursor is (start + N - 1) mod N when N > 1 and is left at start, which
\* may be N or more, when N = 1; after Success or NoImageFound next() on the
\* call's list still gives the credential of the last attempt.
C34_RotationFrame ==
    /\ [](/\ Cardinality(Rotations) <= (IF ObsN = 0 THEN 0 ELSE ObsN - 1)
          /\ \A b \in Rotations : b < ObsN)
    /\ [][ObsReturns =>
            LET N == Len(ObsThen.api_keys)
                last == ObsThen.log[Len(ObsThen.log)]
            IN  /\ ObsThen.ret.kind = "Exhausted" =>
                      /\ Len(ObsThen.log) = N
                      /\ N > 1 => api_key_index' = (StartCursor + N - 1) % N
                      /\ N = 1 => api_key_index' = StartCursor
                /\ ObsThen.ret.kind \in {"Success", "NoImageFound"} =>
                      /\ NextKey(ObsThen.api_keys, api_key_index') = last.key
                      /\ last.atRot = -1]_vars
C34_Witness ==
    /\ mode = "solo" /\ Obs.pc = "done" /\ Obs.ret.kind = "Exhausted"
    /\ ObsN = 1 /\ Obs.log[1].seen = 1 /\ api_key_index = 1

\* a recv_all call ends in this step with a result other than None
RecvAllEnds ==
    /\ xfer.pc = "recv"
    /\ \/ xfer.stage = "len" /\ xfer'.stage = "path"
       \/ xfer'.pc # "recv" /\ ~xfer'.ret.none

\* C35: send_file returns None or a non-empty path, never an empty one; an
\* ack whose length field is 0 gives None; and recv_all(n) hands its caller
\* exactly n bytes or None: while it is reading it holds fewer than n, and
\* when it ends with bytes they are n, no more of the peer's bytes consumed.
C35_NoEmptyPath ==
    /\ [](Returned => xfer.ret.none \/ xfer.ret.path # <<>>)
    /\ [](Returned /\ xfer.consumed >= 4 /\ AnnouncedLen = 0 => xfer.ret.none)
    /\ [](xfer.pc = "recv" => Len(xfer.data) < xfer.need)
    /\ [][RecvAllEnds =>
            IF xfer.stage = "len"
            THEN /\ xfer'.consumed = 4
                 /\ AnnouncedLen > 0
                 /\ xfer'.stage = "path" => xfer'.need = AnnouncedLen
            ELSE /\ Len(xfer'.data) = xfer.need
                 /\ xfer'.consumed = 4 + xfer.need]_vars
C35_Witness ==
    /\ Returned /\ xfer.ret.none /\ xfer.caught = None
    /\ xfer.peer.bytes = Pack32(0) /\ xfer.consumed = 4

\* a step of a method body of the pool, by a call holding the lock
LockedStep(c) == NextLocked(c) \/ RotateLocked(c) \/ UpdateLocked(c) \/ GetLocked(c)
\* a waiter on a free asyncio.Lock is woken and the holder runs the body of the
\* `async with` without suspension: both steps happen when they stay possible
InitLockLive == InitShared /\ mode = "locklive"
SpecLockLive ==
    /\ InitLockLive /\ [][NextLock]_vars
    /\ \A c \in Calls : WF_vars(Step(c)) /\ WF_vars(Acquire(c)) /\ WF_vars(LockedStep(c))

\* c is at `async with self._lock` and has not entered
Requests(c) == call[c].pc \in LockPcs /\ c \notin lock

\* C36: every path out of next(), rotate(), update_saved_image() and
\* get_saved_image_info() releases the lock, the raise of next() on an empty
\* list included; the lock is held only by a call inside one of the four
\* bodies; a state in which a call waits for the lock always has a step to
\* take; and every call that requests the lock acquires it.
C36_LockReleased ==
    /\ [](\A c \in lock : call[c].pc \in LockPcs)
    /\ [](Cardinality(lock) <= 1)
    /\ [][\A c \in Calls : c \in lock /\ call'[c] # call[c] => lock' = {}]_vars
    /\ [][pool' # pool => lock = {} /\ lock' = {}]_vars
    /\ []((\E c \in Calls : Requests(c)) =>
             \E c \in Calls : ENABLED Acquire(c) \/ ENABLED LockedStep(c))
    /\ \A c \in Calls : Requests(c) ~> (c \in lock)
C36_Witness ==
    /\ mode = "locklive" /\ lock = {} /\ pool.got = "ValueError"
    /\ \E c \in Calls : Requests(c)

\* a 200 answer with a JSON object has been handled
Answered200 ==
    /\ attempt.pc \in {"answered", "downloaded"}
    /\ attempt.r.status = 200 /\ attempt.r.body.form = "object"

\* C37: the rules of the 200 handler exclude each other by the presence of
\* the key, not by what they find: a non-empty data array that yields no
\* image (an item with neither key, base64 that does not decode, a download
\* answered with another status than 200) ends the call with NoImageFound
\* whatever the choices hold; the choices are looked at only when data is
\* absent or empty; and in choices[0].message the content is scanned only
\* when images is absent or empty.
C37_RulesByKeyPresence ==
    Answered200 =>
        LET body == attempt.r.body
        IN  /\ body.data \in {"other", "b64_bad"} =>
                  /\ attempt.parse \in {"none", "b64"}
                  /\ attempt.taken.out = "none" /\ attempt.taken.ret = "NoImageFound"
            /\ body.data = "url" /\ attempt.pc = "downloaded" /\ attempt.download = "status" =>
                  /\ attempt.after.out = "none" /\ attempt.after.pc = "done"
                  /\ attempt.after.ret = "NoImageFound"
            /\ (attempt.branch = "choices") <=>
                  (body.data \in {"absent", "empty"} /\ body.choices # "absent")
            /\ body.data \notin {"absent", "empty"} =>
                  attempt.parse = ParseBody(Body200(body.data, "absent"))
            /\ body.data \in {"absent", "empty"} /\ body.choices = "images_other_uri" =>
                  /\ attempt.parse = "none" /\ attempt.taken.ret = "NoImageFound"
            /\ body.data \in {"absent", "empty"} /\ body.choices = "content_uri" =>
                  /\ attempt.parse = "b64" /\ attempt.taken.pc = "write"
C37_Witness ==
    /\ Answered200 /\ attempt.pc = "downloaded" /\ attempt.download = "status"
    /\ attempt.r.body.data = "url" /\ attempt.r.body.choices = "content_uri"
    /\ attempt.after.ret = "NoImageFound"

\* the call that stores the record in this step: it leaves the aiofiles
\* context of the file it wrote
Records(c) == call[c].pc = "close" /\ call'[c].pc = "done"
\* c returns in this step without an image
ReturnsFailure(c) ==
    /\ call[c].pc # "done" /\ call'[c].pc = "done"
    /\ call'[c].ret.kind \in {"NoImageFound", "Exhausted", "NoKeys"}

\* C38: last_saved_image changes only in the step in which a call has its
\* file written whole and leaves the write, and then to that file's pair; a
\* call that ends with NoImageFound or Exhausted, a save whose decoding or
\* write fails and every rotation of the cursor leave it as it is; and the
\* pair is (None, None) or (file:// + path, path).
C38_RecordFrame ==
    /\ [][last_saved_image' # last_saved_image =>
            \E c \in Calls :
                /\ Records(c) /\ call'[c].ret.kind = "Success"
                /\ call[c].image_path \in DOMAIN disk
                /\ disk[call[c].image_path].content = "full"
                /\ last_saved_image' = [url |-> FileUrl(call[c].image_path),
                                        path |-> call[c].image_path]]_vars
    /\ [][\A c \in Calls :
            \/ ReturnsFailure(c)
            \/ call[c].pc = "write" /\ call'[c].pc # "close" /\ call'[c] # call[c]
            \/ api_key_index' # api_key_index
            => last_saved_image' = last_saved_image]_vars
    /\ [](\/ last_saved_image = [url |-> NoPath, path |-> NoPath]
          \/ /\ last_saved_image["path"] # NoPath
             /\ last_saved_image["url"] = FileUrl(last_saved_image["path"]))
C38_Witness ==
    /\ mode = "concurrent"
    /\ Obs.pc = "done" /\ Obs.ret.kind = "Exhausted"
    /\ \E b \in Blocks : \E i \in DOMAIN Obs.log[b].ev : Obs.log[b].ev[i].out = "raised"
    /\ call[2].ret.kind = "Success"
    /\ last_saved_image = [url |-> FileUrl(OwnFile(2)), path |-> OwnFile(2)]

\* C39: the plugin's generate_image makes at most one transfer, and only
\* with the pair of a successful generation in hand; what it returns has the
\* url of the orchestrator, unchanged, and as its path the path the receiver
\* answered with when send_file returned one, the local path otherwise;
\* without a generated image it returns (None, None).
C39_TransferChangesPathOnly ==
    mode = "xfer" /\ xfer.pc # "off" =>
        /\ Cardinality(Positions("connect")) <= 1
        /\ Cardinality(Positions("return")) <= 1
        /\ xfer.ops # <<>> => xfer.url # None /\ xfer.image_path # <<>>
        /\ xfer.pc = "done" =>
              /\ xfer.out.url = xfer.url
              /\ xfer.url = None => xfer.out = NoImage /\ xfer.ops = <<>>
              /\ xfer.url # None =>
                    xfer.out.path = IF xfer.ret.none THEN xfer.image_path ELSE xfer.ret.path
C39_Witness ==
    /\ PluginDone /\ ~xfer.ret.none /\ Positions("return") # {}
    /\ xfer.out.path = xfer.ret.path /\ xfer.out.path # xfer.image_path
    /\ xfer.out.url = xfer.url


====
